---- MODULE Spec2Model ----
(***************************************************************************)
(* book2course: the job scheduler (services/queue_worker.py), the record   *)
(* store operations it uses (services/supabase_client.py), the generation  *)
(* pipeline's sequence of progress callbacks and stage calls               *)
(* (services/ai_generator.py, process_book_to_course) and the endpoints    *)
(* that enqueue, re-queue and delete jobs (routers/).                      *)
(*                                                                         *)
(* Granularity.  The record store is a remote service: every call of the   *)
(* worker on it is one step, and requests of the owner (upload, process,   *)
(* reprocess, delete) may take effect between any two of them.  A progress *)
(* callback (existence check, then write of the step label) together with  *)
(* the stage call that follows it is one step: the stage call reads and    *)
(* writes nothing in the store, so a request that arrives during it has    *)
(* the same effect as one that arrives right after it.  An endpoint        *)
(* handler runs without a suspension point (every store call in it is      *)
(* synchronous), so it is one step.  Any store call, blob download or      *)
(* stage call may raise.                                                   *)
(***************************************************************************)
EXTENDS Integers, Sequences, FiniteSets, TLC

\* ---- bounds of the model ----
MaxJobs == 2        \* books ever uploaded
MaxTasks == 2       \* run_worker tasks that exist at the same time
MaxCourses == 2     \* course records that exist at the same time
MaxChunks == 1      \* chunks chunk_text returns
MaxChapters == 2    \* chapters of a generated structure
MaxLessons == 1     \* lessons of each chapter of a generated structure
MaxRequeues == 1    \* requests that queue a book again (process, reprocess)
MaxQuestions == 4   \* questions of one kind in a quiz reply of the model

\* the most members written out in an object of a reply
MaxMembers == 2

\* the longest reply of which every composition is explored
MaxReplyLen == 3

\* the most chapters of an outline
MaxEntries == 2

\* the highest page number of an outline, and the most pages of a document
MaxPage == 3

\* the most entries of the outline embedded in a document
MaxItems == 2

\* a page far into a large document, and the pages of a large document
FarPage == 150
LargeDoc == 200

\* the longest text that is split into chunks, the largest chunk_size and
\* the largest overlap
MaxTextLen == 5
MaxChunkSize == 3
MaxOverlap == 2

\* the most chapters of a selection
MaxSelections == 1

\* the longest lesson title
MaxTitleLen == 1

\* the most requests for an outline that await the model at the same time
MaxTocCalls == 2

\* the most chunk summaries of a book, and the most topics of a summary
MaxSummaries == 6
MaxTopics == 4

\* The bounded scenarios that are explored.  Each bounds every dimension:
\* ScenQueue has many books (processed whole), ScenTasks many tasks, ScenRun
\* one run with large structures, ScenAgain repeated runs of the same book.
\* sels: the chapter selections a process request may carry; tocs: the
\* requests for the outline of a book that may be under way at once.
ScenQueue == [jobs |-> MaxJobs, tasks |-> 1, requeues |-> 0, courses |-> 1,
              chunks |-> 0, chapters |-> 0, lessons |-> 0, sels |-> {"none"}, tocs |-> 0]
ScenTasks == [jobs |-> 1, tasks |-> MaxTasks, requeues |-> MaxRequeues, courses |-> 1,
              chunks |-> 0, chapters |-> 0, lessons |-> 0, sels |-> {"none", "ranges"},
              tocs |-> 0]
ScenRun == [jobs |-> 1, tasks |-> 1, requeues |-> 0, courses |-> 1,
            chunks |-> MaxChunks, chapters |-> MaxChapters, lessons |-> MaxLessons,
            sels |-> {"none", "ranges"}, tocs |-> MaxTocCalls]
ScenAgain == [jobs |-> 1, tasks |-> 1, requeues |-> MaxRequeues, courses |-> MaxCourses,
              chunks |-> 1, chapters |-> 1, lessons |-> 1, sels |-> {"none", "ranges"},
              tocs |-> 0]
Scenarios == {ScenQueue, ScenTasks, ScenRun, ScenAgain}

BookIds == 1..MaxJobs
CourseIds == 1..MaxCourses
Tasks == 1..MaxTasks

VARIABLES
    books,            \* table "books": id -> record, NoBook when no row has the id
    nextBook,         \* number of rows ever inserted in "books" (ids and created_at)
    courses,          \* table "courses" with the "chapters" and "lessons" rows below each
    tasks,            \* the run_worker tasks: position and locals of each
    is_running,       \* BookQueueWorker._is_running
    current_book_id,  \* BookQueueWorker._current_book_id, 0 for None
    started,          \* whether lifespan() has run its startup part
    requeues,         \* number of requests so far that queued a book again
    lim,              \* the scenario: the bounds of this behaviour, never changed
    toc_calls,        \* the get_book_toc requests that await call_openrouter
    call,             \* one call of call_openrouter: its attempts and waits
    stage,            \* one call of a pipeline stage function: its requests and result
    fun               \* one call of a function without side effects: argument, result

\* the variables of the scheduler and of the record store
sched_vars == <<books, nextBook, courses, tasks, is_running, current_book_id,
                started, requeues, lim, toc_calls>>

\* the variables of the generation functions
gen_vars == <<call, stage>>

vars == <<sched_vars, gen_vars, fun>>

\* ---- the record store ----
NoBook == [status |-> "absent", selected_chapters |-> "none",
           processing_step |-> "other", created_at |-> 0]
NoCourse == [book_id |-> 0, chapters |-> 0, lessons |-> 0]

BookExists(bs, id) == bs[id].status # "absent"

\* processing_step is free text; the model keeps whether it is the error
\* detail "Error: ..." or anything else (a progress label, or null)
StepClass(step) == IF step = "Error" THEN "Error" ELSE "other"

\* check_book_exists: select id where id = book_id, non-empty
check_book_exists(id) == BookExists(books, id)

\* update(...).eq("id", id): changes the row when there is one, else changes nothing
UpdateStatusAndStep(bs, id, status, step) ==
    IF BookExists(bs, id)
    THEN [bs EXCEPT ![id].status = status, ![id].processing_step = StepClass(step)]
    ELSE bs

UpdateStatusOnly(bs, id, status) ==
    IF BookExists(bs, id) THEN [bs EXCEPT ![id].status = status] ELSE bs

UpdateStep(bs, id, step) ==
    IF BookExists(bs, id) THEN [bs EXCEPT ![id].processing_step = StepClass(step)] ELSE bs

\* update_book_status: the outcomes of one call.  With a processing_step the
\* update of both fields is tried first and, if it raises, the update of the
\* status alone, which is not guarded.
update_book_status(bs, id, status, step) ==
    IF step # "null"
    THEN { [books |-> UpdateStatusAndStep(bs, id, status, step), raised |-> FALSE],
           [books |-> UpdateStatusOnly(bs, id, status), raised |-> FALSE],
           [books |-> bs, raised |-> TRUE] }
    ELSE { [books |-> UpdateStatusOnly(bs, id, status), raised |-> FALSE],
           [books |-> bs, raised |-> TRUE] }

\* update_book_progress: a failure of the write is swallowed
update_book_progress(bs, id, step) == { UpdateStep(bs, id, step), bs }

CoursesOf(cs, id) == {c \in CourseIds : cs[c].book_id = id}

\* delete of course rows: cascades to their chapters and lessons
DeleteCourses(cs, which) ==
    [c \in CourseIds |-> IF c \in which THEN NoCourse ELSE cs[c]]

\* delete of a book row: cascades to course -> chapters -> lessons
DeleteBookRow(bs, id) == [bs EXCEPT ![id] = NoBook]
CascadeBook(cs, id) == DeleteCourses(cs, CoursesOf(cs, id))

\* insert into "courses": the foreign key on book_id refuses a course of a
\* book that has no row; FreeCourse is the id the new row gets
CanInsertCourse(bs, cs, id) ==
    BookExists(bs, id) /\ \E c \in 1..lim.courses : cs[c].book_id = 0
FreeCourse(cs) == CHOOSE c \in 1..lim.courses : cs[c].book_id = 0

\* (no foreign key on the rows below a course)
InsertsBelowAnything(cs, c, id) == c # 0

\* insert into "chapters" / "lessons": the foreign key refuses a row below a
\* course (chapter) that no longer exists
CanInsertBelow(cs, c, id) == c # 0 /\ cs[c].book_id = id /\ id # 0

\* ---- the worker tasks ----
\* pc: the position; book, sel: book["id"], book.get("selected_chapters");
\* marked: the run has set the book to processing; exc: the exception e that
\* the except clause holds; nChunks, chunk: len(chunks) and the chunk loop;
\* nChapters, nLessons: the structure; lesson: lesson_count; course:
\* course["id"]; chapter, chLesson: chapters created, and lessons created in
\* the current chapter; made: lessons created by the run
IdleTask == [pc |-> "none", book |-> 0, sel |-> "none", marked |-> FALSE,
             exc |-> "none", nChunks |-> 0, chunk |-> 0, nChapters |-> 0,
             nLessons |-> 0, lesson |-> 0, course |-> 0, chapter |-> 0,
             chLesson |-> 0, made |-> 0]

\* the task r with exception e raised inside the try of process_book
Raise(r, e) == [r EXCEPT !.pc = "except", !.exc = e]

\* a task at the top of the polling loop, between two jobs
LoopTask == [IdleTask EXCEPT !.pc = "fetch"]

LoopPcs == {"fetch", "sleep"}
NoRunPcs == {"none", "created"} \cup LoopPcs

InLoop(t) == tasks[t].pc \notin {"none", "created"}
InRun(t) == tasks[t].pc \notin NoRunPcs

\* BookQueueWorker.is_processing
is_processing == is_running

\* BookQueueWorker.start: create_task(run_worker())
CanStart == \E t \in 1..lim.tasks : tasks[t].pc = "none"
start(ts) ==
    LET t == CHOOSE t \in 1..lim.tasks : ts[t].pc = "none"
    IN [ts EXCEPT ![t] = [IdleTask EXCEPT !.pc = "created"]]

\* "if not queue_worker.is_processing: queue_worker.start()"
StartIfIdle(ts) == IF is_processing THEN ts ELSE start(ts)

\* A reply of the model, by what the stages read of it.  json: what
\* extraction finds in the text ("none": no JSON, else the type of the value);
\* keys, keyPoints, nested: a lesson content object (its keys other than
\* keyPoints, the items of keyPoints, explanation holding a JSON object);
\* valid, generic, short, malformed: a quiz object (questions with real
\* options, questions with placeholder options, short_answer items, items
\* that are no objects); scores, mode: a quality verdict.
TextReply == [json |-> "none", keys |-> {}, keyPoints |-> "absent", nested |-> FALSE,
              valid |-> 0, generic |-> 0, short |-> 0, malformed |-> FALSE,
              scores |-> <<0, 0, 0>>, mode |-> "none"]

\* what a stage function returns, or the pipeline stores.  source: "reply"
\* when it comes from the model, "fallback" when the stage made it up
NoResult == [source |-> "none", json |-> "none", keys |-> {}, items |-> 0,
             scores |-> <<0, 0, 0>>, mode |-> "none"]

\* no call of call_openrouter, no stage function under way
IdleCall == [pc |-> "idle", attempt |-> 0, posts |-> 0, slept |-> <<>>,
             error |-> "none", reply |-> TextReply]
NoStage == [fn |-> "none", tier |-> "pro", detected |-> "none", mode |-> "ENHANCE",
            title |-> <<"w">>, pc |-> "none",
            attempt |-> 0, requests |-> 0, exc |-> "none", out |-> NoResult,
            final |-> NoResult]

\* no function called
NoFun == [fn |-> "none"]

Init ==
    /\ books = [b \in BookIds |-> NoBook]
    /\ nextBook = 0
    /\ courses = [c \in CourseIds |-> NoCourse]
    /\ tasks = [t \in Tasks |-> IdleTask]
    /\ is_running = FALSE
    /\ current_book_id = 0
    /\ started = FALSE
    /\ requeues = 0
    /\ lim \in Scenarios
    /\ toc_calls = 0
    /\ call = IdleCall
    /\ stage = NoStage
    /\ fun = NoFun

\* ---- the endpoints ----

\* lifespan: queue_worker.start() at application startup
Startup ==
    /\ ~started
    /\ CanStart
    /\ started' = TRUE
    /\ tasks' = start(tasks)
    /\ UNCHANGED <<books, nextBook, courses, is_running, current_book_id, requeues, lim, toc_calls, gen_vars, fun>>

\* POST /api/upload: notes are queued at once, a book waits for its selection
upload_pdf(upload_type) ==
    /\ nextBook < lim.jobs
    /\ is_processing \/ upload_type = "book" \/ CanStart
    /\ LET id == nextBook + 1
           initial_status == IF upload_type = "book" THEN "pending_selection"
                                                     ELSE "queued"
       IN /\ books' = [books EXCEPT ![id] =
                          [status |-> initial_status, selected_chapters |-> "none",
                           processing_step |-> "other", created_at |-> id]]
          /\ nextBook' = id
    /\ tasks' = IF upload_type = "notes" THEN StartIfIdle(tasks) ELSE tasks
    /\ UNCHANGED <<courses, is_running, current_book_id, started, requeues, lim, toc_calls, gen_vars, fun>>

\* the statuses POST /api/books/{id}/process accepts
Processable == {"pending_selection", "queued", "error"}

\* POST /api/books/{id}/process: store the selection, queue the book
process_book(id, sel) ==
    /\ BookExists(books, id)
    /\ books[id].status \in Processable
    /\ books[id].status = "pending_selection" \/ requeues < lim.requeues
    /\ is_processing \/ CanStart
    /\ \/ books' = [books EXCEPT ![id].status = "queued",
                                 ![id].selected_chapters = sel]
       \/ \* the update with selected_chapters raised: status alone
          books' = [books EXCEPT ![id].status = "queued"]
    /\ tasks' = StartIfIdle(tasks)
    /\ requeues' = IF books[id].status = "pending_selection" THEN requeues
                                                             ELSE requeues + 1
    /\ UNCHANGED <<nextBook, courses, is_running, current_book_id, started, lim, toc_calls, gen_vars, fun>>

\* the books POST /api/admin/reprocess/{id} resets: every book that has a row
Reprocessable(id) == BookExists(books, id)

\* POST /api/admin/reprocess/{id}: delete the course, reset the book to queued
reprocess_book(id) ==
    /\ Reprocessable(id)
    /\ requeues < lim.requeues
    /\ is_processing \/ CanStart
    /\ courses' = DeleteCourses(courses, CoursesOf(courses, id))
    /\ books' = UpdateStatusAndStep(books, id, "queued", "Queued for reprocessing")
    /\ tasks' = StartIfIdle(tasks)
    /\ requeues' = requeues + 1
    /\ UNCHANGED <<nextBook, is_running, current_book_id, started, lim, toc_calls, gen_vars, fun>>

\* DELETE /api/courses/{item_id}, the item being a book
delete_book(id) ==
    /\ BookExists(books, id)
    /\ books' = DeleteBookRow(books, id)
    /\ courses' = CascadeBook(courses, id)
    /\ UNCHANGED <<nextBook, tasks, is_running, current_book_id, started, requeues, lim, toc_calls, gen_vars, fun>>

\* DELETE /api/courses/{item_id}, the item being a course: the course, then its book
delete_course(c) ==
    /\ courses[c].book_id # 0
    /\ LET id == courses[c].book_id
       IN /\ books' = DeleteBookRow(books, id)
          /\ courses' = CascadeBook(DeleteCourses(courses, {c}), id)
    /\ UNCHANGED <<nextBook, tasks, is_running, current_book_id, started, requeues, lim, toc_calls, gen_vars, fun>>

\* GET /books/{book_id}/toc, when extract_toc does not take the outline of
\* the metadata: the handler has found the book and awaits call_openrouter in
\* extract_toc_with_ai
get_book_toc(id) ==
    /\ BookExists(books, id)
    /\ toc_calls < lim.tocs
    /\ toc_calls' = toc_calls + 1
    /\ UNCHANGED <<books, nextBook, courses, tasks, is_running, current_book_id,
                   started, requeues, lim, gen_vars, fun>>

\* call_openrouter has returned or raised (extract_toc_with_ai catches every
\* exception): the handler responds
toc_response ==
    /\ toc_calls > 0
    /\ toc_calls' = toc_calls - 1
    /\ UNCHANGED <<books, nextBook, courses, tasks, is_running, current_book_id,
                   started, requeues, lim, gen_vars, fun>>

Endpoint ==
    \/ Startup
    \/ \E id \in BookIds : get_book_toc(id)
    \/ toc_response
    \/ \E upload_type \in {"book", "notes"} : upload_pdf(upload_type)
    \/ \E id \in BookIds, sel \in lim.sels : process_book(id, sel)
    \/ \E id \in BookIds : reprocess_book(id)
    \/ \E id \in BookIds : delete_book(id)
    \/ \E c \in CourseIds : delete_course(c)

\* ---- run_worker ----

\* (a guard that never finds a loop running)
NeverAlreadyRunning == FALSE

\* the guard at the top of run_worker
AlreadyRunning == is_running

\* run_worker up to the loop: return when a loop is running, else become the loop
run_worker(t) ==
    /\ tasks[t].pc = "created"
    /\ IF AlreadyRunning
       THEN /\ tasks' = [tasks EXCEPT ![t] = IdleTask]
            /\ UNCHANGED is_running
       ELSE /\ tasks' = [tasks EXCEPT ![t] = LoopTask]
            /\ is_running' = TRUE
    /\ UNCHANGED <<books, nextBook, courses, current_book_id, started, requeues, lim, toc_calls, gen_vars, fun>>

\* (a loop that exits without its finally clause)
LoopExits(t) ==
    /\ tasks' = [tasks EXCEPT ![t] = IdleTask]
    /\ UNCHANGED is_running

\* an exception leaves the while loop: finally, _is_running = False
LoopDies(t) ==
    /\ tasks' = [tasks EXCEPT ![t] = IdleTask]
    /\ is_running' = FALSE

\* the end of process_book (finally: _current_book_id = None), back in the loop
RunEnds(t) ==
    /\ tasks' = [tasks EXCEPT ![t] = LoopTask]
    /\ current_book_id' = 0

\* (a query that also returns the books that wait for their selection)
QueuedOrPending(bs) ==
    {b \in BookIds : bs[b].status \in {"queued", "pending_selection"}}

\* the rows with status = "queued"
Queued(bs) == {b \in BookIds : bs[b].status = "queued"}

\* (order by created_at descending)
NewestFirst(bs, b, o) == bs[b].created_at >= bs[o].created_at

\* the row get_next_queued_book returns: order by created_at ascending, limit 1
OldestFirst(bs, b, o) == bs[b].created_at <= bs[o].created_at
get_next_queued_book(bs) ==
    CHOOSE b \in Queued(bs) : \A o \in Queued(bs) : OldestFirst(bs, b, o)

\* (a count that takes in the rows created at the same time, the book itself
\* among them)
NotLater(bs, o, id) == bs[o].created_at <= bs[id].created_at

\* .lt("created_at", book.data["created_at"])
Earlier(bs, o, id) == bs[o].created_at < bs[id].created_at

\* get_queue_position(book_id): 0 for a book that has no row, else one more
\* than the number of queued rows created earlier
get_queue_position(bs, id) ==
    IF ~BookExists(bs, id) THEN 0
    ELSE Cardinality({o \in Queued(bs) : Earlier(bs, o, id)}) + 1

\* one round of the loop: fetch, then process_book up to its try, or sleep
fetch(t) ==
    /\ tasks[t].pc = "fetch"
    /\ UNCHANGED <<books, nextBook, courses, started, requeues, lim, toc_calls, gen_vars, fun>>
    /\ \/ \* the query raises
          /\ LoopDies(t)
          /\ UNCHANGED current_book_id
       \/ /\ Queued(books) = {}
          /\ tasks' = [tasks EXCEPT ![t].pc = "sleep"]
          /\ UNCHANGED <<is_running, current_book_id>>
       \/ /\ Queued(books) # {}
          /\ LET b == get_next_queued_book(books)
             IN /\ tasks' = [tasks EXCEPT ![t].pc = "exists", ![t].book = b,
                                 ![t].sel = books[b].selected_chapters]
                /\ current_book_id' = b
          /\ UNCHANGED is_running

\* asyncio.sleep(5) is over
wake(t) ==
    /\ tasks[t].pc = "sleep"
    /\ tasks' = [tasks EXCEPT ![t].pc = "fetch"]
    /\ UNCHANGED <<books, nextBook, courses, is_running, current_book_id, started, requeues, lim, toc_calls, gen_vars, fun>>

\* ---- process_book of the worker ----

\* "if not await self.check_book_exists(book_id): return"
check_at_start(t) ==
    /\ tasks[t].pc = "exists"
    /\ UNCHANGED <<books, nextBook, courses, is_running, started, requeues, lim, toc_calls, gen_vars, fun>>
    /\ \/ \* the query raises
          /\ tasks' = [tasks EXCEPT ![t] = Raise(tasks[t], "other")]
          /\ UNCHANGED current_book_id
       \/ /\ ~check_book_exists(tasks[t].book)
          /\ RunEnds(t)
       \/ /\ check_book_exists(tasks[t].book)
          /\ tasks' = [tasks EXCEPT ![t].pc = "mark"]
          /\ UNCHANGED current_book_id

\* update_book_status(book_id, "processing")
mark_processing(t) ==
    /\ tasks[t].pc = "mark"
    /\ UNCHANGED <<nextBook, courses, is_running, current_book_id, started, requeues, lim, toc_calls, gen_vars, fun>>
    /\ \E o \in update_book_status(books, tasks[t].book, "processing", "null") :
          /\ books' = o.books
          /\ tasks' = IF o.raised
                      THEN [tasks EXCEPT ![t] = Raise(tasks[t], "other")]
                      ELSE [tasks EXCEPT ![t].pc = "download",
                               ![t].marked = BookExists(books, tasks[t].book)]

\* progress "Downloading PDF...", the path from file_url, the download
download(t) ==
    /\ tasks[t].pc = "download"
    /\ UNCHANGED <<nextBook, courses, is_running, current_book_id, started, requeues, lim, toc_calls, gen_vars, fun>>
    /\ books' \in update_book_progress(books, tasks[t].book, "progress")
    /\ \/ \* "Invalid file URL format", or the download raises
          tasks' = [tasks EXCEPT ![t] = Raise(tasks[t], "other")]
       \/ tasks' = [tasks EXCEPT ![t].pc =
                       IF tasks[t].sel # "none" THEN "select" ELSE "cb_extract"]

\* progress "Extracting N selected chapters...", extract_chapter_pages (which
\* returns the whole document when it cannot extract, and never raises)
select_chapters(t) ==
    /\ tasks[t].pc = "select"
    /\ UNCHANGED <<nextBook, courses, is_running, current_book_id, started, requeues, lim, toc_calls, gen_vars, fun>>
    /\ books' \in update_book_progress(books, tasks[t].book, "progress")
    /\ tasks' = [tasks EXCEPT ![t].pc = "cb_extract"]

\* ---- the progress callbacks and the stage after each ----
CallbackPcs == {"cb_extract", "cb_start", "cb_split", "cb_split_done", "cb_chunk",
                "cb_quality", "cb_mode", "cb_overview", "cb_structure",
                "cb_created", "cb_lesson", "cb_quiz", "cb_final", "cb_save"}

Raised(r) == Raise(r, "other")

NumLessons(r) == r.nChapters * r.nLessons

\* the structures generate_course_structure may return
Structures ==
    {[nChapters |-> 0, nLessons |-> 0]} \cup
    {[nChapters |-> c, nLessons |-> l] : c \in 1..lim.chapters, l \in 0..lim.lessons}

MinTextLen == 100

\* the lengths of the text that extract_text_from_pdf may return
TextLens == {0, MinTextLen - 1, MinTextLen}

\* "if not text or len(text) < 100: raise Exception(...)"
AfterExtract(r, n) ==
    IF n < MinTextLen THEN Raise(r, "Not enough text")
                      ELSE [r EXCEPT !.pc = "cb_start"]

\* what follows the callback at r.pc, up to the next callback: the positions
\* the task may be in then ("except" when the stage raised)
AfterCallback(r) ==
    CASE r.pc = "cb_extract" ->     \* extract_text_from_pdf, which may raise
           {AfterExtract(r, n) : n \in TextLens} \cup {Raised(r)}
      [] r.pc = "cb_start" ->       \* process_book_to_course is entered
           {[r EXCEPT !.pc = "cb_split"]}
      [] r.pc = "cb_split" ->       \* chunk_text
           {[r EXCEPT !.pc = "cb_split_done", !.nChunks = n] : n \in 0..lim.chunks}
      [] r.pc = "cb_split_done" ->
           {IF r.nChunks > 0 THEN [r EXCEPT !.pc = "cb_chunk", !.chunk = 1]
                             ELSE [r EXCEPT !.pc = "cb_quality"]}
      [] r.pc = "cb_chunk" ->       \* summarize_chunk
           {IF r.chunk < r.nChunks
            THEN [r EXCEPT !.chunk = r.chunk + 1]
            ELSE [r EXCEPT !.pc = "cb_quality", !.chunk = 0, !.nChunks = 0],
            Raised(r)}
      [] r.pc = "cb_quality" ->     \* detect_quality
           {[r EXCEPT !.pc = "cb_mode"], Raised(r)}
      [] r.pc = "cb_mode" ->
           {[r EXCEPT !.pc = "cb_overview"]}
      [] r.pc = "cb_overview" ->    \* generate_book_overview
           {[r EXCEPT !.pc = "cb_structure"], Raised(r)}
      [] r.pc = "cb_structure" ->   \* generate_course_structure
           {[r EXCEPT !.pc = "cb_created", !.nChapters = s.nChapters,
                      !.nLessons = s.nLessons] : s \in Structures}
           \cup {Raised(r)}
      [] r.pc = "cb_created" ->
           {IF NumLessons(r) > 0 THEN [r EXCEPT !.pc = "cb_lesson", !.lesson = 1]
                                 ELSE [r EXCEPT !.pc = "cb_final"]}
      [] r.pc = "cb_lesson" ->      \* generate_lesson_content
           {[r EXCEPT !.pc = "cb_quiz"], Raised(r)}
      [] r.pc = "cb_quiz" ->        \* generate_quiz
           {IF r.lesson < NumLessons(r)
            THEN [r EXCEPT !.pc = "cb_lesson", !.lesson = r.lesson + 1]
            ELSE [r EXCEPT !.pc = "cb_final", !.lesson = 0],
            Raised(r)}
      [] r.pc = "cb_final" ->       \* process_book_to_course returns
           {[r EXCEPT !.pc = "cb_save"]}
      [] r.pc = "cb_save" ->
           {[r EXCEPT !.pc = "create_course"]}

\* the positions inside process_book_to_course
PipelinePcs == CallbackPcs \ {"cb_extract", "cb_start", "cb_save"}

\* (a callback that does not look for the book)
AssumedToExist(id) == TRUE

\* the check on_progress makes before it writes the step
StillExists(id) == check_book_exists(id)

\* on_progress(step), and the stage that follows it
on_progress(t) ==
    /\ tasks[t].pc \in CallbackPcs
    /\ UNCHANGED <<nextBook, courses, is_running, current_book_id, started, requeues, lim, toc_calls, gen_vars, fun>>
    /\ \/ \* the existence query raises
          /\ tasks' = [tasks EXCEPT ![t] = Raise(tasks[t], "other")]
          /\ UNCHANGED books
       \/ \* raise Exception("Book was deleted")
          /\ ~StillExists(tasks[t].book)
          /\ tasks' = [tasks EXCEPT ![t] = Raise(tasks[t], "Book was deleted")]
          /\ UNCHANGED books
       \/ /\ StillExists(tasks[t].book)
          /\ books' \in update_book_progress(books, tasks[t].book, "progress")
          /\ \E r \in AfterCallback(tasks[t]) : tasks' = [tasks EXCEPT ![t] = r]

\* ---- persistence of the course ----

\* the exceptions an insert may raise: a failure of the store at any time, the
\* violation of the foreign key when the row it refers to is gone
InsertErrors(allowed) == IF allowed THEN {"other"} ELSE {"other", "foreign key"}

\* the position after the course row is created
AfterCourse(r, c) ==
    IF r.nChapters > 0 THEN [r EXCEPT !.pc = "create_chapter", !.course = c]
                       ELSE [r EXCEPT !.pc = "mark_ready", !.course = c]

\* (a chapter loop that is left after its first row, before any lesson)
AfterFirstChapterOnly(r) ==
    [r EXCEPT !.pc = "mark_ready", !.chapter = r.chapter + 1]

\* the position after chapter row number r.chapter + 1 is created
AfterChapter(r) ==
    IF r.nLessons > 0
    THEN [r EXCEPT !.pc = "create_lesson", !.chapter = r.chapter + 1, !.chLesson = 0]
    ELSE IF r.chapter + 1 < r.nChapters
         THEN [r EXCEPT !.chapter = r.chapter + 1]
         ELSE [r EXCEPT !.pc = "mark_ready", !.chapter = r.chapter + 1]

\* the position after lesson row number r.chLesson + 1 of the chapter is created
AfterLesson(r) ==
    IF r.chLesson + 1 < r.nLessons
    THEN [r EXCEPT !.chLesson = r.chLesson + 1, !.made = r.made + 1]
    ELSE IF r.chapter < r.nChapters
         THEN [r EXCEPT !.pc = "create_chapter", !.chLesson = r.chLesson + 1,
                        !.made = r.made + 1]
         ELSE [r EXCEPT !.pc = "mark_ready", !.chLesson = r.chLesson + 1,
                        !.made = r.made + 1]

\* create_course (with the quality fields, then without them)
create_course(t) ==
    /\ tasks[t].pc = "create_course"
    /\ UNCHANGED <<books, nextBook, is_running, current_book_id, started, requeues, lim, toc_calls, gen_vars, fun>>
    /\ \/ \* the insert raises (both attempts)
          /\ \E e \in InsertErrors(BookExists(books, tasks[t].book)) :
                tasks' = [tasks EXCEPT ![t] = Raise(tasks[t], e)]
          /\ UNCHANGED courses
       \/ /\ CanInsertCourse(books, courses, tasks[t].book)
          /\ LET c == FreeCourse(courses)
             IN /\ courses' = [courses EXCEPT ![c] =
                                  [book_id |-> tasks[t].book, chapters |-> 0,
                                   lessons |-> 0]]
                /\ tasks' = [tasks EXCEPT ![t] = AfterCourse(tasks[t], c)]

\* create_chapter
create_chapter(t) ==
    /\ tasks[t].pc = "create_chapter"
    /\ UNCHANGED <<books, nextBook, is_running, current_book_id, started, requeues, lim, toc_calls, gen_vars, fun>>
    /\ \/ \* the insert raises
          /\ \E e \in InsertErrors(CanInsertBelow(courses, tasks[t].course,
                                                   tasks[t].book)) :
                tasks' = [tasks EXCEPT ![t] = Raise(tasks[t], e)]
          /\ UNCHANGED courses
       \/ /\ CanInsertBelow(courses, tasks[t].course, tasks[t].book)
          /\ courses' = [courses EXCEPT ![tasks[t].course].chapters = @ + 1]
          /\ tasks' = [tasks EXCEPT ![t] = AfterChapter(tasks[t])]

\* create_lesson
create_lesson(t) ==
    /\ tasks[t].pc = "create_lesson"
    /\ UNCHANGED <<books, nextBook, is_running, current_book_id, started, requeues, lim, toc_calls, gen_vars, fun>>
    /\ \/ \* the insert raises
          /\ \E e \in InsertErrors(CanInsertBelow(courses, tasks[t].course,
                                                   tasks[t].book)) :
                tasks' = [tasks EXCEPT ![t] = Raise(tasks[t], e)]
          /\ UNCHANGED courses
       \/ /\ CanInsertBelow(courses, tasks[t].course, tasks[t].book)
          /\ courses' = [courses EXCEPT ![tasks[t].course].lessons = @ + 1]
          /\ tasks' = [tasks EXCEPT ![t] = AfterLesson(tasks[t])]

\* update_book_status(book_id, "ready", "Complete!")
mark_ready(t) ==
    /\ tasks[t].pc = "mark_ready"
    /\ UNCHANGED <<nextBook, courses, is_running, started, requeues, lim, toc_calls, gen_vars, fun>>
    /\ \E o \in update_book_status(books, tasks[t].book, "ready", "Complete!") :
          /\ books' = o.books
          /\ IF o.raised
             THEN /\ tasks' = [tasks EXCEPT ![t] = Raise(tasks[t], "other")]
                  /\ UNCHANGED current_book_id
             ELSE RunEnds(t)

\* except Exception: update_book_status(book_id, "error", "Error: ...")
handle_exception(t) ==
    /\ tasks[t].pc = "except"
    /\ UNCHANGED <<nextBook, courses, started, requeues, lim, toc_calls, gen_vars, fun>>
    /\ \E o \in update_book_status(books, tasks[t].book, "error", "Error") :
          /\ books' = o.books
          /\ IF o.raised
             THEN /\ LoopDies(t)
                  /\ current_book_id' = 0
             ELSE /\ RunEnds(t)
                  /\ UNCHANGED is_running

Worker(t) ==
    \/ run_worker(t)
    \/ fetch(t)
    \/ wake(t)
    \/ check_at_start(t)
    \/ mark_processing(t)
    \/ download(t)
    \/ select_chapters(t)
    \/ on_progress(t)
    \/ create_course(t)
    \/ create_chapter(t)
    \/ create_lesson(t)
    \/ mark_ready(t)
    \/ handle_exception(t)

Next == Endpoint \/ \E t \in Tasks : Worker(t)

Spec == Init /\ [][Next]_vars

\* The event loop runs every task that is ready: a worker step that stays
\* enabled is eventually taken.  Requests are under no obligation to arrive.
FairSpec == Spec /\ \A t \in Tasks : WF_vars(Worker(t))

\* ---- call_openrouter ----

\* retries: int = 3, the default every caller uses
DefaultRetries == 3

\* what one attempt may end in: the reply, or one of the three except clauses
CallErrors == {"HTTPStatusError", "TimeoutException", "Exception"}

\* (a loop that also waits and tries again after its last attempt)
RetriesOnceMore(attempt, retries) == attempt < retries

\* "if attempt < retries - 1": the failed attempt is not the last one
CanRetry(attempt, retries) == attempt < retries - 1

\* wait_time = 2 ** (attempt + 1)
WaitTime(attempt) == 2 ^ (attempt + 1)

\* the entry of call_openrouter: for attempt in range(retries), first round
NewCall == [IdleCall EXCEPT !.pc = "post"]

\* the call c after an attempt that failed with error e
AfterFailure(c, e) ==
    IF CanRetry(c.attempt, DefaultRetries)
    THEN [c EXCEPT !.pc = "sleep", !.posts = c.posts + 1, !.error = e]
    ELSE [c EXCEPT !.pc = "raised", !.posts = c.posts + 1, !.error = e]

\* the call c after an attempt that got the reply r
AfterReply(c, r) ==
    [c EXCEPT !.pc = "returned", !.posts = c.posts + 1, !.error = "none", !.reply = r]

\* await asyncio.sleep(wait_time), then the next round of the loop
AfterSleep(c) ==
    [c EXCEPT !.pc = "post", !.attempt = c.attempt + 1,
              !.slept = Append(c.slept, WaitTime(c.attempt))]

\* ---- the stage functions ----

StageFns == {"summarize_chunk", "detect_quality", "generate_book_overview",
             "generate_course_structure", "generate_lesson_content", "generate_quiz"}

\* the stages that parse with json.loads and have a fallback for JSONDecodeError
SimpleFns == {"summarize_chunk", "detect_quality", "generate_book_overview",
              "generate_course_structure"}

Tiers == {"free", "basic", "pro"}
Modes == {"PRESERVE", "ENHANCE"}

\* the keys of the premium content
Extras == {"common_mistakes", "actionable_steps", "before_you_move_on"}

\* the keys validate_lesson_content makes sure of
Ensured == {"keyPoints", "introduction", "summary"}

\* the keys of the object inside a nested explanation (one choice)
NestedKeys == {"explanation", "common_mistakes"}

\* the keys of the fallback content of the two lesson functions
FallbackKeys(mode) ==
    {"introduction", "explanation", "key_concepts", "examples", "keyPoints",
     "summary", "before_you_move_on"}
    \cup (IF mode = "PRESERVE" THEN {} ELSE {"common_mistakes", "actionable_steps"})

\* the scores of the fallback verdict of detect_quality
NeutralScore == 5

\* the fallback of each stage for a reply it cannot parse
Fallback(fn, mode) ==
    CASE fn = "detect_quality" ->
           [NoResult EXCEPT !.source = "fallback", !.json = "object",
                            !.scores = <<NeutralScore, NeutralScore, NeutralScore>>,
                            !.mode = "ENHANCE"]
      [] fn = "generate_lesson_content" ->
           [NoResult EXCEPT !.source = "fallback", !.json = "object",
                            !.keys = FallbackKeys(mode)]
      [] fn = "generate_quiz" ->
           [NoResult EXCEPT !.source = "fallback", !.json = "list", !.items = 1]
      [] OTHER ->
           [NoResult EXCEPT !.source = "fallback", !.json = "object"]

\* the value a stage returns when it returns what the model replied
FromReply(r) ==
    [NoResult EXCEPT !.source = "reply", !.json = r.json, !.scores = r.scores,
                     !.mode = r.mode]

\* validate_lesson_content: the keys of the content it returns
validate_lesson_content(r) ==
    r.keys \cup Ensured \cup (IF r.nested THEN NestedKeys ELSE {})

\* content.get on a value that is no object, kp.get on an item that is none
RaisesAttributeError(r) == r.json # "object" \/ r.keyPoints = "strings"

\* (a quiz stage that returns whatever passed validation, even nothing)
AnyQuestions(r) == TRUE

\* "if valid_questions or short_answers"
HasQuestions(r) == r.valid > 0 \/ r.short > 0

\* the stage st after the exception e left it
StageRaises(st, e) == [st EXCEPT !.pc = "raised", !.exc = e]

\* lesson_title.split(): whether the title has a word
HasWord(title) == \E i \in DOMAIN title : title[i] # " "

\* "lesson_title.split()[0] if lesson_title else 'this topic'" in the first
\* option of the fallback question: a title of spaces only has no first word
NoFirstWord(title) == title # <<>> /\ ~HasWord(title)

\* the stage st after the attempt failed in a way its loop catches:
\* "if attempt == 0: continue", else the loop ends and the fallback is built
NextAttempt(st) ==
    IF st.attempt = 0
    THEN [st EXCEPT !.pc = "request", !.attempt = 1]
    ELSE IF st.fn = "generate_quiz" /\ NoFirstWord(st.title)
    THEN StageRaises(st, "IndexError")
    ELSE [st EXCEPT !.pc = "returned", !.out = Fallback(st.fn, st.mode)]

\* the stage st with reply r of call_openrouter
OnReply(st, r) ==
    CASE st.fn \in SimpleFns ->
           IF r.json = "none"
           THEN [st EXCEPT !.pc = "returned", !.out = Fallback(st.fn, st.mode)]
           ELSE [st EXCEPT !.pc = "returned", !.out = FromReply(r)]
      [] st.fn = "generate_lesson_content" ->
           IF r.json = "none" THEN NextAttempt(st)
           ELSE IF RaisesAttributeError(r) THEN StageRaises(st, "AttributeError")
           ELSE [st EXCEPT !.pc = "returned",
                           !.out = [FromReply(r) EXCEPT
                                       !.keys = validate_lesson_content(r)]]
      [] st.fn = "generate_quiz" ->
           IF r.json = "object" /\ ~r.malformed /\ HasQuestions(r)
           THEN [st EXCEPT !.pc = "returned",
                           !.out = [FromReply(r) EXCEPT !.json = "list",
                                       !.items = r.valid + r.short]]
           ELSE NextAttempt(st)

\* the stages whose loop catches the failure of call_openrouter: generate_quiz,
\* "except Exception"
CatchesFailure(fn) == fn = "generate_quiz"

\* the stage st when call_openrouter raised e
OnFailure(st, e) == IF CatchesFailure(st.fn) THEN NextAttempt(st) ELSE StageRaises(st, e)

\* ---- process_book_to_course: what it does with the tier and the results ----

is_paid(tier) == tier \in {"basic", "pro"}
include_extras(tier) == is_paid(tier)

\* (a pipeline that strips nothing)
KeepsEverything(tier, keys) == keys

\* "if not include_extras: content.pop(...)" for the three premium keys
StripExtras(tier, keys) == IF include_extras(tier) THEN keys ELSE keys \ Extras

\* content_mode: quality_result.get("mode", "ENHANCE") for a paid tier, else
\* PRESERVE; m is the mode of the verdict, "none" when it has none
ContentMode(tier, m) ==
    IF is_paid(tier) THEN (IF m = "none" THEN "ENHANCE" ELSE m) ELSE "PRESERVE"

\* the stage st after the pipeline has taken its result: quality_result,
\* lesson["content"], lesson["quiz"]; a result that is no object has no .get,
\* and quality_result["mode"] = "PRESERVE" of the free tier cannot be assigned
AfterUse(st) ==
    CASE st.fn = "generate_quiz" ->
           [st EXCEPT !.pc = "used", !.final = st.out]
      [] st.out.json # "object" /\ st.fn = "detect_quality" /\ ~is_paid(st.tier) ->
           StageRaises(st, "TypeError")
      [] st.out.json # "object" ->
           StageRaises(st, "AttributeError")
      [] st.fn = "detect_quality" ->
           [st EXCEPT !.pc = "used",
                      !.final = [st.out EXCEPT !.mode = ContentMode(st.tier, st.out.mode)]]
      [] st.fn = "generate_lesson_content" ->
           [st EXCEPT !.pc = "used",
                      !.final = [st.out EXCEPT !.keys = StripExtras(st.tier, st.out.keys)]]
      [] OTHER ->
           [st EXCEPT !.pc = "used", !.final = st.out]

\* ---- the replies and inputs that are explored ----

\* the scores 1..10 a verdict is explored with
MinScore == 1
MaxScore == 10
PreserveFrom == 7
ScoreChoices == {MinScore, PreserveFrom - 1, PreserveFrom, MaxScore}

LessonReplyKeys ==
    {{}, {"introduction", "explanation", "summary"},
     {"introduction", "explanation", "summary"} \cup Extras, {"common_mistakes"}}

NoObjectReplies == {[TextReply EXCEPT !.json = j] : j \in {"none", "list", "string"}}

Replies(fn) ==
    NoObjectReplies \cup
    CASE fn = "detect_quality" ->
           {[TextReply EXCEPT !.json = "object", !.scores = <<a, b, c>>, !.mode = m] :
               a \in ScoreChoices, b \in ScoreChoices, c \in ScoreChoices,
               m \in Modes \cup {"none"}}
      [] fn = "generate_lesson_content" ->
           {[TextReply EXCEPT !.json = "object", !.keys = k, !.keyPoints = kp,
                              !.nested = n] :
               k \in LessonReplyKeys, kp \in {"absent", "dicts", "strings"},
               n \in BOOLEAN}
      [] fn = "generate_quiz" ->
           {[TextReply EXCEPT !.json = "object", !.valid = v, !.generic = g,
                              !.short = sh, !.malformed = m] :
               v \in 0..MaxQuestions, g \in 0..1, sh \in 0..1, m \in BOOLEAN}
      [] OTHER -> {[TextReply EXCEPT !.json = "object"]}

\* lesson["title"] of the structure the model replied: some letters and spaces
LessonTitles == UNION {[1..n -> {"w", " "}] : n \in 0..MaxTitleLen}

\* a stage function about to be called: by the pipeline of a tier, after a
\* verdict with mode m
StageInputs ==
    {[NoStage EXCEPT !.fn = fn, !.tier = t, !.detected = m,
                     !.mode = ContentMode(t, m), !.pc = "request"] :
        fn \in StageFns, t \in Tiers, m \in Modes \cup {"none"}}
    \cup {[NoStage EXCEPT !.fn = "generate_quiz", !.tier = t, !.title = title,
                          !.pc = "request"] :
             t \in Tiers, title \in LessonTitles}

\* ---- one stage of the pipeline, with its completion requests ----

GenInit ==
    /\ books = [b \in BookIds |-> NoBook]
    /\ nextBook = 0
    /\ courses = [c \in CourseIds |-> NoCourse]
    /\ tasks = [t \in Tasks |-> IdleTask]
    /\ is_running = FALSE
    /\ current_book_id = 0
    /\ started = FALSE
    /\ requeues = 0
    /\ lim = ScenRun
    /\ toc_calls = 0
    /\ call = IdleCall
    /\ stage \in StageInputs
    /\ fun = NoFun

\* response = await call_openrouter(messages, ...)
begin_request ==
    /\ stage.pc = "request"
    /\ stage' = [stage EXCEPT !.pc = "await", !.requests = stage.requests + 1]
    /\ call' = NewCall
    /\ UNCHANGED <<sched_vars, fun>>

\* one attempt of call_openrouter: the post, and the reply or the exception
post ==
    /\ call.pc = "post"
    /\ \/ \E r \in Replies(stage.fn) : call' = AfterReply(call, r)
       \/ \E e \in CallErrors : call' = AfterFailure(call, e)
    /\ UNCHANGED <<sched_vars, stage, fun>>

\* the wait before the next attempt
backoff ==
    /\ call.pc = "sleep"
    /\ call' = AfterSleep(call)
    /\ UNCHANGED <<sched_vars, stage, fun>>

\* call_openrouter has returned or raised: the rest of the stage's attempt
resume ==
    /\ stage.pc = "await"
    /\ call.pc \in {"returned", "raised"}
    /\ stage' = IF call.pc = "returned" THEN OnReply(stage, call.reply)
                                        ELSE OnFailure(stage, call.error)
    /\ call' = IdleCall
    /\ UNCHANGED <<sched_vars, fun>>

\* the stage has returned: the pipeline takes the result
use_result ==
    /\ stage.pc = "returned"
    /\ stage' = AfterUse(stage)
    /\ UNCHANGED <<sched_vars, call, fun>>

GenNext == begin_request \/ post \/ backoff \/ resume \/ use_result

GenSpec == GenInit /\ [][GenNext]_vars

\* ---- extract_json_from_response ----

(***************************************************************************)
(* A reply is a sequence of tokens.  "{" and "}" are braces; "m" is one    *)
(* member of an object and "M" three members with further keys (commas     *)
(* are left implicit); "L" is a JSON list; "w" is a word of prose; "F" is  *)
(* a fence of three backticks and "J" the word json; "Q" is a double       *)
(* quote that opens or closes a JSON-encoded string, and the tokens        *)
(* between two of them stand for their escaped form.                       *)
(***************************************************************************)
Tokens == {"{", "}", "m", "M", "L", "w", "F", "J", "Q"}

Members == {"m", "M"}

Positions(ts, tok) == {i \in 1..Len(ts) : ts[i] = tok}

Lowest(S) == CHOOSE x \in S : \A y \in S : x <= y

Highest(S) == CHOOSE x \in S : \A y \in S : x >= y

JSONDecodeError == [kind |-> "JSONDecodeError", n |-> 0, content |-> <<>>]

\* the text of an object: braces around members
IsObject(ts) ==
    /\ Len(ts) >= 2
    /\ ts[1] = "{"
    /\ ts[Len(ts)] = "}"
    /\ \A i \in 2..(Len(ts) - 1) : ts[i] \in Members

\* the number of keys of an object
NKeys(ts) == Cardinality(Positions(ts, "m")) + 3 * Cardinality(Positions(ts, "M"))

\* the text of a string: quotes around text without a bare quote
IsString(ts) ==
    /\ Len(ts) >= 2
    /\ ts[1] = "Q"
    /\ ts[Len(ts)] = "Q"
    /\ \A i \in 2..(Len(ts) - 1) : ts[i] # "Q"

\* position i of the reply lies inside an encoded string
Escaped(ts, i) == Cardinality({j \in 1..(i - 1) : ts[j] = "Q"}) % 2 = 1

\* json.loads of a piece of the reply; the keys of escaped members have
\* backslashes before their quotes, which is no JSON
loads(ts, escaped) ==
    IF IsObject(ts) /\ (escaped => Len(ts) = 2)
    THEN [kind |-> "dict", n |-> NKeys(ts), content |-> <<>>]
    ELSE IF ts = <<"L">>
    THEN [kind |-> "list", n |-> 0, content |-> <<>>]
    ELSE IF ~escaped /\ IsString(ts)
    THEN [kind |-> "str", n |-> 0, content |-> SubSeq(ts, 2, Len(ts) - 1)]
    ELSE JSONDecodeError

\* the text from position first up to the next fence
Block(ts, first) ==
    LET fences == {i \in Positions(ts, "F") : i >= first}
    IN SubSeq(ts, first, IF fences = {} THEN Len(ts) ELSE Lowest(fences) - 1)

JsonFences(ts) == {i \in 1..(Len(ts) - 1) : ts[i] = "F" /\ ts[i + 1] = "J"}

\* method 2: the block after the first fence tagged json
FromJsonBlock(ts) ==
    IF JsonFences(ts) = {} THEN JSONDecodeError
    ELSE LET first == Lowest(JsonFences(ts)) + 2
         IN loads(Block(ts, first), Escaped(ts, first))

\* method 3: the block after the first fence
FromBlock(ts) ==
    IF Positions(ts, "F") = {} THEN JSONDecodeError
    ELSE LET first == Lowest(Positions(ts, "F")) + 1
         IN loads(Block(ts, first), Escaped(ts, first))

FewKeys == 2

\* method 4 accepts a dict with more than two keys
LikelyLesson(v) == v.kind = "dict" /\ v.n > FewKeys

\* method 4: the text from the first opening brace to the last closing one
FromBraces(ts) ==
    LET opens == Positions(ts, "{")
        closes == Positions(ts, "}")
    IN IF opens = {} \/ closes = {} \/ Highest(closes) < Lowest(opens)
       THEN JSONDecodeError
       ELSE LET v == loads(SubSeq(ts, Lowest(opens), Highest(closes)),
                           Escaped(ts, Lowest(opens)))
            IN IF LikelyLesson(v) THEN v ELSE JSONDecodeError

\* method 5: a reply in quotes that decodes to a string is decoded again
FromEncoded(ts) ==
    IF Len(ts) >= 1 /\ ts[1] = "Q" /\ ts[Len(ts)] = "Q"
    THEN LET v == loads(ts, FALSE)
         IN IF v.kind = "str" THEN loads(v.content, FALSE) ELSE JSONDecodeError
    ELSE JSONDecodeError

\* no method found JSON: an empty object is returned
EmptyObject == [kind |-> "dict", n |-> 0, content |-> <<>>]

\* no method found JSON: the parse failure is raised
CouldNotExtract == JSONDecodeError

Found(v) == v # JSONDecodeError

extract_json_from_response(ts) ==
    IF Found(loads(ts, FALSE)) THEN loads(ts, FALSE)
    ELSE IF Found(FromJsonBlock(ts)) THEN FromJsonBlock(ts)
    ELSE IF Found(FromBlock(ts)) THEN FromBlock(ts)
    ELSE IF Found(FromBraces(ts)) THEN FromBraces(ts)
    ELSE IF Found(FromEncoded(ts)) THEN FromEncoded(ts)
    ELSE CouldNotExtract

\* ---- the replies that are explored ----

\* sequences of at most n elements of S
SeqsUpTo(S, n) == UNION {[1..k -> S] : k \in 0..n}

\* the objects a reply may carry
Objects == {<<"{">> \o ms \o <<"}">> : ms \in SeqsUpTo(Members, MaxMembers)}

Shapes == {"raw", "json fence", "fence", "prose", "encoded"}

\* the five shapes of a reply that carries object o
Wrap(shape, o) ==
    CASE shape = "raw" -> {o}
      [] shape = "json fence" -> {<<"F", "J">> \o o \o <<"F">>,
                                  <<"w", "F", "J">> \o o \o <<"F", "w">>}
      [] shape = "fence" -> {<<"F">> \o o \o <<"F">>,
                             <<"w", "F">> \o o \o <<"F", "w">>}
      [] shape = "prose" -> {<<"w">> \o o, o \o <<"w">>, <<"w">> \o o \o <<"w">>}
      [] shape = "encoded" -> {<<"Q">> \o o \o <<"Q">>}

NoText == <<>>

ExtractInputs ==
    UNION {{[fn |-> "extract_json_from_response", pc |-> "called", text |-> t,
             shape |-> sh, obj |-> o, result |-> JSONDecodeError] :
                t \in Wrap(sh, o)} : sh \in Shapes, o \in Objects}
    \cup
    {[fn |-> "extract_json_from_response", pc |-> "called", text |-> t,
      shape |-> "any", obj |-> NoText, result |-> JSONDecodeError] :
         t \in SeqsUpTo(Tokens, MaxReplyLen)}

\* ---- the stages that parse the reply themselves ----

\* summarize_chunk, detect_quality, generate_book_overview,
\* generate_course_structure and extract_toc_with_ai do not call
\* extract_json_from_response: each has the same statements of its own
InlineParsers == SimpleFns \cup {"extract_toc_with_ai"}

\* if "```json" in response: the block after the first fence tagged json;
\* elif "```" in response: the block after the first fence; then
\* json.loads(response.strip())
parse_inline(ts) ==
    IF JsonFences(ts) # {} THEN FromJsonBlock(ts)
    ELSE IF Positions(ts, "F") # {} THEN FromBlock(ts)
    ELSE loads(ts, FALSE)

\* the replies to the five functions: the five shapes for each of them, and
\* every short reply for the first stage of the pipeline
ParseInputs ==
    UNION {{[fn |-> f, pc |-> "called", text |-> t, shape |-> sh, obj |-> o,
             result |-> JSONDecodeError] :
                t \in Wrap(sh, o)} : f \in InlineParsers, sh \in Shapes, o \in Objects}
    \cup
    {[fn |-> "summarize_chunk", pc |-> "called", text |-> t, shape |-> "any",
      obj |-> NoText, result |-> JSONDecodeError] :
         t \in SeqsUpTo(Tokens, MaxReplyLen)}

\* ---- calculate_chapter_pages and extract_toc (services/toc_extractor.py) ----

\* the candidate start pages of an outline, sorted by page number
SortedPages(ps) ==
    CHOOSE s \in [1..Len(ps) -> {ps[i] : i \in 1..Len(ps)}] :
        /\ \A i \in 1..(Len(ps) - 1) : s[i] <= s[i + 1]
        /\ \A i \in 1..Len(ps) :
              Cardinality(Positions(s, ps[i])) = Cardinality(Positions(ps, ps[i]))

\* end_page = max(end_page, start_page)
AtLeastStart(end_page, start_page) ==
    IF end_page >= start_page THEN end_page ELSE start_page

\* the end page of entry i of the sorted pages, before the adjustment
EndPage(ps, i, backmatter_start, total_pages) ==
    IF i < Len(ps) THEN ps[i + 1] - 1
    ELSE IF backmatter_start # 0 /\ backmatter_start > ps[i]
    THEN backmatter_start - 1
    ELSE total_pages

\* backmatter_start 0 stands for None
calculate_chapter_pages(chapters, backmatter_start, total_pages) ==
    LET ps == SortedPages(chapters)
    IN [i \in 1..Len(ps) |->
           LET end_page == AtLeastStart(EndPage(ps, i, backmatter_start, total_pages),
                                        ps[i])
           IN [start_page |-> ps[i],
               end_page |-> end_page,
               page_count |-> end_page - ps[i] + 1]]

\* what an extraction of the outline found: the start pages of its chapters
\* in the order found, and the first page of the backmatter (0: none)
NoOutline == [found |-> FALSE, pages |-> <<>>, back |-> 0]

Pages == 1..MaxPage

Outlines ==
    {NoOutline} \cup
    {[found |-> TRUE, pages |-> ps, back |-> b] :
        ps \in SeqsUpTo(Pages, MaxEntries) \ {<<>>}, b \in 0..MaxPage}

\* ---- extract_toc_from_metadata and sanity_check_toc ----

\* titles of the entries of an embedded outline, one for each way the
\* keyword lists tell titles apart
Titles == {"Preface", "Index", "Chapter 1", "Part One", "Introduction", "Data Models"}

\* any(kw in title_lower for kw in backmatter_keywords)
is_backmatter(title) == title = "Index"

\* any(kw in title_lower for kw in frontmatter_keywords)
is_frontmatter(title) == title = "Preface"

\* any(word in title_lower for word in ["chapter", "part", ...])
NamesUnit(title) == title \in {"Chapter 1", "Part One"}

\* any(keyword in title_lower for keyword in front_back_keywords)
is_front_back(title) == title \in {"Preface", "Index", "Introduction"}

DeepestLevel == 2

LongSection == 50

LargeBook == 100

FewSections == 5

FewContent == 3

LargeGap == 80

\* the entries of doc.get_toc(): [level, title, page]; of the entries below
\* DeepestLevel, which are skipped whatever their title, one title is explored
TocItems ==
    [level : 1..DeepestLevel, title : Titles, page : {1, FarPage}]
    \cup [level : {DeepestLevel + 1}, title : {"Data Models"}, page : {1, FarPage}]

IsContent(item) == ~is_backmatter(item.title) /\ ~is_frontmatter(item.title)

\* the chapters that extract_toc_from_metadata collects: the content entries
\* of level 1, or those of the levels up to DeepestLevel if there are none
MetadataChapters(toc) ==
    LET top == SelectSeq(toc, LAMBDA it : it.level = 1 /\ IsContent(it))
    IN IF top # <<>> THEN top
       ELSE SelectSeq(toc, LAMBDA it : it.level <= DeepestLevel /\ IsContent(it))

\* the page of the first backmatter entry (0: none)
BackmatterStart(toc) ==
    LET back == SelectSeq(toc, LAMBDA it : it.level <= DeepestLevel
                                           /\ is_backmatter(it.title))
    IN IF back = <<>> THEN 0 ELSE back[1].page

\* returns None (NoOutline) if it collects no chapter
extract_toc_from_metadata(toc) ==
    LET chs == MetadataChapters(toc)
    IN IF chs = <<>> THEN NoOutline
       ELSE [found |-> TRUE,
             pages |-> [i \in 1..Len(chs) |-> chs[i].page],
             back |-> BackmatterStart(toc)]

\* the titles of the chapters collected
MetadataTitles(toc) ==
    LET chs == MetadataChapters(toc)
    IN [i \in 1..Len(chs) |-> chs[i].title]

\* sorted(chapters, key=page) keeps the order of chapters of the same page:
\* the position in chapters of each entry of the sorted list
SortedOrder(ps) ==
    CHOOSE f \in [1..Len(ps) -> 1..Len(ps)] :
        \A i, j \in 1..Len(ps) :
            i < j => \/ ps[f[i]] < ps[f[j]]
                     \/ ps[f[i]] = ps[f[j]] /\ f[i] < f[j]

\* check 1: a section of more than 50 pages whose title names no unit
HasLongSection(titles, o, total_pages) ==
    LET with_pages == calculate_chapter_pages(o.pages, o.back, total_pages)
        f == SortedOrder(o.pages)
    IN \E i \in 1..Len(o.pages) :
          /\ with_pages[i].page_count > LongSection
          /\ ~NamesUnit(titles[f[i]])

\* check 2: too few sections for a large book, none of them a chapter
TooFewSections(titles, total_pages) ==
    /\ total_pages > LargeBook
    /\ Len(titles) < FewSections
    /\ \A i \in 1..Len(titles) : titles[i] # "Chapter 1"

\* check 3: mostly front and back matter in a large book
MostlyFrontBack(titles, total_pages) ==
    /\ total_pages > LargeBook
    /\ Cardinality({i \in 1..Len(titles) : ~is_front_back(titles[i])}) < FewContent

\* (no gap is too large)
NoLargeGap(o) == FALSE

\* check 4: a large gap between the start pages of two entries
HasLargeGap(o) ==
    LET ps == SortedPages(o.pages)
    IN \E i \in 1..(Len(ps) - 1) : ps[i + 1] - ps[i] > LargeGap

sanity_check_toc(titles, o, total_pages) ==
    /\ o.found
    /\ ~HasLongSection(titles, o, total_pages)
    /\ ~TooFewSections(titles, total_pages)
    /\ ~MostlyFrontBack(titles, total_pages)
    /\ ~HasLargeGap(o)

\* ---- extract_toc ----

\* no page, a few pages, the pages of a large document
TotalPages == {0, MaxPage, LargeDoc}

\* a document of 120 pages whose embedded outline has six chapters, 20 pages
\* apart, and an index at page 115
SixChapters ==
    [k \in 1..6 |-> [level |-> 1, title |-> "Chapter 1", page |-> 20 * k - 19]]
    \o <<[level |-> 1, title |-> "Index", page |-> 115]>>

TocInputs ==
    {[fn |-> "extract_toc", pc |-> "called", total_pages |-> n, toc |-> toc,
      outline |-> NoOutline, is_valid |-> FALSE, fallback |-> "none",
      method |-> "none", chapters |-> <<>>] :
        n \in TotalPages, toc \in SeqsUpTo(TocItems, MaxItems)}
    \cup
    {[fn |-> "extract_toc", pc |-> "called", total_pages |-> 120,
      toc |-> SixChapters,
      outline |-> NoOutline, is_valid |-> FALSE, fallback |-> "none",
      method |-> "none", chapters |-> <<>>]}

\* the outline of the metadata is used whatever the sanity check says
FoundOnly(o, is_valid) == o.found

\* "if metadata_chapters:" and then "if is_valid:"
Accepted(o, is_valid) == o.found /\ is_valid

\* the outline of the metadata is returned if it is found and passes the
\* sanity check; else the extraction with the model is tried
toc_metadata ==
    /\ fun.fn = "extract_toc"
    /\ fun.pc = "called"
    /\ LET o == extract_toc_from_metadata(fun.toc)
           is_valid == sanity_check_toc(MetadataTitles(fun.toc), o, fun.total_pages)
       IN fun' = IF Accepted(o, is_valid)
                 THEN [fun EXCEPT !.pc = "done",
                                  !.outline = o,
                                  !.is_valid = is_valid,
                                  !.method = "metadata",
                                  !.chapters = calculate_chapter_pages(
                                      o.pages, o.back, fun.total_pages)]
                 ELSE [fun EXCEPT !.pc = "ai",
                                  !.toc = <<>>,
                                  !.fallback = IF o.found THEN "failed sanity check"
                                               ELSE "no metadata TOC"]
    /\ UNCHANGED <<sched_vars, gen_vars>>

\* the outline of the model is returned whatever the sanity check says
toc_ai ==
    /\ fun.fn = "extract_toc"
    /\ fun.pc = "ai"
    /\ \E o \in Outlines, v \in BOOLEAN :
          fun' = IF o.found
                 THEN [fun EXCEPT !.pc = "done",
                                  !.outline = o,
                                  !.is_valid = v,
                                  !.method = "ai",
                                  !.chapters = calculate_chapter_pages(
                                      o.pages, o.back, fun.total_pages)]
                 ELSE [fun EXCEPT !.pc = "done", !.method = "none"]
    /\ UNCHANGED <<sched_vars, gen_vars>>

\* ---- chunk_text (services/pdf_processor.py) ----

(***************************************************************************)
(* A text is a sequence of characters: the letters "a" and "b" and the     *)
(* newline, which is the whitespace of the texts explored.  Two newlines   *)
(* in a row separate paragraphs.                                           *)
(***************************************************************************)
Chars == {"a", "b", "\n"}

IsSpace(c) == c \in {" ", "\n"}

ParagraphBreak == <<"\n", "\n">>

\* str.strip()
strip(s) ==
    LET inked == {i \in 1..Len(s) : ~IsSpace(s[i])}
    IN IF inked = {} THEN <<>> ELSE SubSeq(s, Lowest(inked), Highest(inked))

\* str.lstrip(), the start of a stripped string
lstrip(s) ==
    LET inked == {i \in 1..Len(s) : ~IsSpace(s[i])}
    IN IF inked = {} THEN <<>> ELSE SubSeq(s, Lowest(inked), Len(s))

\* str.split(sep): the pieces between the occurrences of sep, from the left
RECURSIVE split(_, _)
split(s, sep) ==
    LET at == {i \in 1..(Len(s) - Len(sep) + 1) : SubSeq(s, i, i + Len(sep) - 1) = sep}
    IN IF at = {} THEN <<s>>
       ELSE <<SubSeq(s, 1, Lowest(at) - 1)>>
            \o split(SubSeq(s, Lowest(at) + Len(sep), Len(s)), sep)

\* str.rfind(sep): the last index, counted from 0, where sep occurs, or -1
rfind(s, sep) ==
    LET at == {i \in 0..(Len(s) - Len(sep)) : SubSeq(s, i + 1, i + Len(sep)) = sep}
    IN IF at = {} THEN -1 ELSE Highest(at)

\* for sep in [". ", "! ", "? ", "\n", " "]
Seps == << <<".", " ">>, <<"!", " ">>, <<"?", " ">>, <<"\n">>, <<" ">> >>

\* the place where a paragraph longer than chunk_size is split: after the
\* last separator in the second half of its first chunk_size characters, for
\* the first kind of separator that has one there, else at chunk_size
SplitPoint(paragraph, chunk_size) ==
    LET head == SubSeq(paragraph, 1, chunk_size)
        hits == {k \in 1..Len(Seps) : rfind(head, Seps[k]) > chunk_size \div 2}
    IN IF hits = {} THEN chunk_size
       ELSE rfind(head, Seps[Lowest(hits)]) + Len(Seps[Lowest(hits)])

\* (a split that leaves the paragraph as it is)
KeepsParagraph(paragraph, split_point) == paragraph

\* what is left of the paragraph starts one character after the split point
SkipsOne(paragraph, split_point) ==
    SubSeq(paragraph, split_point + 2, Len(paragraph))

\* paragraph = paragraph[split_point:]
AfterSplit(paragraph, split_point) ==
    SubSeq(paragraph, split_point + 1, Len(paragraph))

\* while len(paragraph) > chunk_size: the pieces split off and what is left
RECURSIVE HardSplit(_, _)
HardSplit(paragraph, chunk_size) ==
    IF Len(paragraph) > chunk_size
    THEN LET split_point == SplitPoint(paragraph, chunk_size)
             more == HardSplit(AfterSplit(paragraph, split_point), chunk_size)
         IN [pieces |-> <<strip(SubSeq(paragraph, 1, split_point))>> \o more.pieces,
             rest |-> more.rest]
    ELSE [pieces |-> <<>>, rest |-> paragraph]

\* if overlap > 0 and len(current_chunk) > overlap
CarriesOverlap(current_chunk, overlap) ==
    overlap > 0 /\ Len(current_chunk) > overlap

\* current_chunk[-overlap:]
Trailing(current_chunk, overlap) ==
    SubSeq(current_chunk, Len(current_chunk) - overlap + 1, Len(current_chunk))

\* The state of the loop: the chunks closed, the running chunk, and for
\* each of them the overlap it was started with (seeds, seed).
NoChunks == [chunks |-> <<>>, seeds |-> <<>>, current_chunk |-> <<>>, seed |-> <<>>]

\* the body of the loop for one paragraph
AddParagraph(st, raw, chunk_size, overlap) ==
    LET paragraph == strip(raw)
    IN IF paragraph = <<>> THEN st
       ELSE IF Len(st.current_chunk) + Len(paragraph) > chunk_size
       THEN IF st.current_chunk # <<>>
            THEN LET closed == [st EXCEPT
                                   !.chunks = Append(st.chunks, strip(st.current_chunk)),
                                   !.seeds = Append(st.seeds, st.seed)]
                 IN IF CarriesOverlap(st.current_chunk, overlap)
                    THEN [closed EXCEPT
                             !.current_chunk = Trailing(st.current_chunk, overlap)
                                               \o ParagraphBreak \o paragraph,
                             !.seed = Trailing(st.current_chunk, overlap)]
                    ELSE [closed EXCEPT !.current_chunk = paragraph, !.seed = <<>>]
            ELSE LET hs == HardSplit(paragraph, chunk_size)
                 IN [chunks |-> st.chunks \o hs.pieces,
                     seeds |-> st.seeds \o [i \in 1..Len(hs.pieces) |-> <<>>],
                     current_chunk |-> hs.rest,
                     seed |-> <<>>]
       ELSE IF st.current_chunk # <<>>
       THEN [st EXCEPT !.current_chunk = st.current_chunk \o ParagraphBreak \o paragraph]
       ELSE [st EXCEPT !.current_chunk = paragraph]

\* for paragraph in paragraphs
RECURSIVE ForParagraphs(_, _, _, _)
ForParagraphs(st, paragraphs, chunk_size, overlap) ==
    IF paragraphs = <<>> THEN st
    ELSE ForParagraphs(AddParagraph(st, Head(paragraphs), chunk_size, overlap),
                       Tail(paragraphs), chunk_size, overlap)

\* the chunks returned, with the overlap each was started with
chunk_text(text, chunk_size, overlap) ==
    LET st == ForParagraphs(NoChunks, split(text, ParagraphBreak), chunk_size, overlap)
    IN IF strip(st.current_chunk) # <<>>
       THEN [chunks |-> Append(st.chunks, strip(st.current_chunk)),
             seeds |-> Append(st.seeds, st.seed)]
       ELSE [chunks |-> st.chunks, seeds |-> st.seeds]

ChunkInputs ==
    {[fn |-> "chunk_text", pc |-> "called", text |-> t, chunk_size |-> n,
      overlap |-> o, chunks |-> <<>>, seeds |-> <<>>] :
        t \in SeqsUpTo(Chars, MaxTextLen), n \in 1..MaxChunkSize, o \in 0..MaxOverlap}

chunk ==
    /\ fun.fn = "chunk_text"
    /\ fun.pc = "called"
    /\ LET r == chunk_text(fun.text, fun.chunk_size, fun.overlap)
       IN fun' = [fun EXCEPT !.pc = "done", !.chunks = r.chunks, !.seeds = r.seeds]
    /\ UNCHANGED <<sched_vars, gen_vars>>

\* ---- extract_chapter_pages (services/chapter_extractor.py) ----

\* the sequences of ss, one after the other
RECURSIVE Concat(_)
Concat(ss) == IF ss = <<>> THEN <<>> ELSE Head(ss) \o Concat(Tail(ss))

Min(a, b) == IF a <= b THEN a ELSE b

Max(a, b) == IF a >= b THEN a ELSE b

\* the pages of the source, counted from 1, that one selected chapter puts
\* into the new document
ChapterPages(chapter, doc_pages) ==
    LET from_page == Max(0, Min(chapter.start_page - 1, doc_pages - 1))
        to_page == Max(from_page, Min(chapter.end_page - 1, doc_pages - 1))
    IN [i \in 1..(to_page - from_page + 1) |-> from_page + i]

\* the pages of the document that is returned: those of the chapters in the
\* order selected, or every page of the source when the extraction raised
extract_chapter_pages(doc_pages, chapters_selected, fails) ==
    IF chapters_selected = <<>> \/ fails
    THEN [i \in 1..doc_pages |-> i]
    ELSE Concat([k \in 1..Len(chapters_selected) |->
                    ChapterPages(chapters_selected[k], doc_pages)])

\* the selections of a process request: any two integers for each chapter
Selections ==
    SeqsUpTo([start_page : 0..(MaxPage + 1), end_page : 0..(MaxPage + 1)],
             MaxSelections) \ {<<>>}

\* fails: opening the source or saving the new document raises
SelectInputs ==
    {[fn |-> "extract_chapter_pages", pc |-> "called", doc_pages |-> n,
      chapters_selected |-> sel, fails |-> f, raised |-> FALSE, pages |-> <<>>] :
        n \in 1..MaxPage, sel \in Selections, f \in BOOLEAN}

\* pdf_bytes = extract_chapter_pages(pdf_bytes, selected_chapters): the
\* function catches every exception, so the call returns
select ==
    /\ fun.fn = "extract_chapter_pages"
    /\ fun.pc = "called"
    /\ fun' = [fun EXCEPT !.pc = "done",
                          !.pages = extract_chapter_pages(
                              fun.doc_pages, fun.chapters_selected, fun.fails)]
    /\ UNCHANGED <<sched_vars, gen_vars>>

\* ---- generate_course_structure: the fallback structure ----

FirstChunks == 5

FirstTopics == 3

\* s[:n]
Take(s, n) == SubSeq(s, 1, Min(n, Len(s)))

\* ["Main Content"], the topics of a summary without the key; the topics of
\* a summary are numbered from 1
MainContent == <<0>>

\* The summaries that reach the stage are objects (detect_quality has called
\* .get on each); the value under "topics" is what the model replied to
\* summarize_chunk: no such key, a list, or an object.
SummaryChoices ==
    {[topics_kind |-> "absent", topics |-> <<>>],
     [topics_kind |-> "list", topics |-> <<>>],
     [topics_kind |-> "list", topics |-> [k \in 1..MaxTopics |-> k]],
     [topics_kind |-> "dict", topics |-> <<>>]}

\* summary.get("topics", ["Main Content"])
TopicsOf(summary) ==
    IF summary.topics_kind = "absent" THEN MainContent ELSE summary.topics

\* [:3] of a list; of an object it raises TypeError
Sliceable(summary) == summary.topics_kind # "dict"

\* the lessons of the chapter for chunk i (counted from 0)
FallbackLessons(summary, i) ==
    LET topics == Take(TopicsOf(summary), FirstTopics)
    IN [k \in 1..Len(topics) |->
           [title |-> topics[k],
            topics_to_cover |-> <<topics[k]>>,
            source_chunk_indices |-> <<i>>]]

\* the value of the except clause: chapter i + 1 for chunk i of
\* chunk_summaries[:5]
fallback_structure(chunk_summaries) ==
    LET firsts == Take(chunk_summaries, FirstChunks)
    IN IF \E i \in 1..Len(firsts) : ~Sliceable(firsts[i])
       THEN [raised |-> TRUE, chapters |-> <<>>]
       ELSE [raised |-> FALSE,
             chapters |-> [i \in 1..Len(firsts) |->
                              [title |-> i,
                               lessons |-> FallbackLessons(firsts[i], i - 1)]]]

StructureInputs ==
    {[fn |-> "fallback_structure", pc |-> "called", chunk_summaries |-> cs,
      raised |-> FALSE, chapters |-> <<>>] :
        cs \in SeqsUpTo(SummaryChoices, MaxSummaries)}

\* except json.JSONDecodeError: return the fallback structure
structure_fallback ==
    /\ fun.fn = "fallback_structure"
    /\ fun.pc = "called"
    /\ LET r == fallback_structure(fun.chunk_summaries)
       IN fun' = [fun EXCEPT !.pc = "done", !.raised = r.raised,
                             !.chapters = r.chapters]
    /\ UNCHANGED <<sched_vars, gen_vars>>

\* ---- the repair of an explanation that holds the content as JSON ----

(***************************************************************************)
(* A content is a function from keys to values: "absent" for a key it      *)
(* does not have, "" for an empty value, "top" for a value of its own.     *)
(* The explanation is "json" when it is a string that json.loads turns     *)
(* into an object (nested, with values "absent", "" and "nested"), and     *)
(* "braces" when it starts with a brace and is no JSON.                    *)
(***************************************************************************)
ContentKeys == {"explanation", "examples"}

\* key in content
Has(content, key) == content[key] # "absent"

\* not content[key], for a key the content has
Falsy(content, key) == content[key] = ""

\* isinstance(explanation, str) and explanation.strip().startswith("{"),
\* json.loads(explanation) gives a dict
HoldsObject(content) == content["explanation"] = "json"

\* validate_lesson_content: content = {**content, **nested}, and then the
\* explanation of nested once more
MergeOver(content, nested) ==
    [key \in ContentKeys |-> IF Has(nested, key) THEN nested[key] ELSE content[key]]

\* fix_nested_json and the admin endpoint: for key, value in nested.items()
FillEmpty(content, nested) ==
    [key \in ContentKeys |->
        IF ~Has(nested, key) THEN content[key]
        ELSE IF ~Has(content, key) \/ Falsy(content, key) THEN nested[key]
        ELSE IF key = "explanation" THEN nested[key]
        ELSE content[key]]

Repairers == {"validate_lesson_content", "fix_lesson_content", "fix_nested_json"}

\* the content after the repair of function fn
Repaired(fn, content, nested) ==
    IF ~HoldsObject(content) THEN content
    ELSE IF fn = "validate_lesson_content" THEN MergeOver(content, nested)
    ELSE FillEmpty(content, nested)

RepairInputs ==
    {[fn |-> f, pc |-> "called",
      content |-> [explanation |-> e, examples |-> x],
      nested |-> [explanation |-> ne, examples |-> nx],
      result |-> [explanation |-> e, examples |-> x]] :
        f \in Repairers, e \in {"json", "braces", "top", ""},
        x \in {"absent", "", "top"},
        ne \in {"absent", "", "nested"}, nx \in {"absent", "", "nested"}}

repair ==
    /\ fun.fn \in Repairers
    /\ fun.pc = "called"
    /\ fun' = [fun EXCEPT !.pc = "done",
                          !.result = Repaired(fun.fn, fun.content, fun.nested)]
    /\ UNCHANGED <<sched_vars, gen_vars>>

\* ---- the persistence calls with an optional field (services/supabase_client.py) ----

(***************************************************************************)
(* The store during one call: "none" when every write succeeds,            *)
(* "optional" when a write that carries the optional field raises (the     *)
(* column does not exist yet), "store" when every write raises.            *)
(***************************************************************************)
Faults == {"none", "optional", "store"}

\* (a store for which a write without the optional field fails as well)
FailsAnyWrite(fault, with_optional) == fault # "none"

\* whether .execute() of a write raises
WriteFails(fault, with_optional) ==
    fault = "store" \/ (fault = "optional" /\ with_optional)

\* what a call did: the writes it tried, what it wrote ("all": with the
\* optional field, "core": without it), whether it raised
NoWrite == [writes |-> 0, written |-> "none", raised |-> FALSE]

\* try the write with the optional field; if it raises, or if there is no
\* optional value, the write without it, which is not guarded:
\* update_book_status and create_course
WithFallback(fault, has_optional) ==
    IF has_optional /\ ~WriteFails(fault, TRUE)
    THEN [writes |-> 1, written |-> "all", raised |-> FALSE]
    ELSE LET tried == IF has_optional THEN 1 ELSE 0
         IN IF WriteFails(fault, FALSE)
            THEN [writes |-> tried + 1, written |-> "none", raised |-> TRUE]
            ELSE [writes |-> tried + 1, written |-> "core", raised |-> FALSE]

\* update_book_progress: the one write is inside try, except Exception
Swallowed(fault) ==
    IF WriteFails(fault, TRUE)
    THEN [writes |-> 1, written |-> "none", raised |-> FALSE]
    ELSE [writes |-> 1, written |-> "all", raised |-> FALSE]

PersistFns == {"update_book_status", "update_book_progress", "create_course"}

\* has_optional: processing_step is not None; quality_mode or quality_scores
PersistInputs ==
    {[fn |-> f, pc |-> "called", fault |-> x, has_optional |-> h, did |-> NoWrite] :
        f \in PersistFns, x \in Faults, h \in BOOLEAN}
    \ {[fn |-> "update_book_progress", pc |-> "called", fault |-> x,
         has_optional |-> FALSE, did |-> NoWrite] : x \in Faults}

persist ==
    /\ fun.fn \in PersistFns
    /\ fun.pc = "called"
    /\ fun' = [fun EXCEPT !.pc = "done",
                          !.did = IF fun.fn = "update_book_progress"
                                  THEN Swallowed(fun.fault)
                                  ELSE WithFallback(fun.fault, fun.has_optional)]
    /\ UNCHANGED <<sched_vars, gen_vars>>

\* ---- one call of a function ----

FunInit ==
    /\ books = [b \in BookIds |-> NoBook]
    /\ nextBook = 0
    /\ courses = [c \in CourseIds |-> NoCourse]
    /\ tasks = [t \in Tasks |-> IdleTask]
    /\ is_running = FALSE
    /\ current_book_id = 0
    /\ started = FALSE
    /\ requeues = 0
    /\ lim = ScenRun
    /\ toc_calls = 0
    /\ call = IdleCall
    /\ stage = NoStage
    /\ \/ fun \in ExtractInputs
       \/ fun \in TocInputs
       \/ fun \in ChunkInputs
       \/ fun \in SelectInputs
       \/ fun \in ParseInputs
       \/ fun \in StructureInputs
       \/ fun \in RepairInputs
       \/ fun \in PersistInputs

extract ==
    /\ fun.fn = "extract_json_from_response"
    /\ fun.pc = "called"
    /\ fun' = [fun EXCEPT !.pc = "done",
                          !.result = extract_json_from_response(fun.text)]
    /\ UNCHANGED <<sched_vars, gen_vars>>

\* the statements between call_openrouter and the except clause of a stage
\* that parses the reply itself
parse_reply ==
    /\ fun.fn \in InlineParsers
    /\ fun.pc = "called"
    /\ fun' = [fun EXCEPT !.pc = "done", !.result = parse_inline(fun.text)]
    /\ UNCHANGED <<sched_vars, gen_vars>>

FunNext ==
    \/ extract \/ toc_metadata \/ toc_ai \/ chunk \/ select \/ parse_reply
    \/ structure_fallback \/ repair \/ persist

FunSpec == FunInit /\ [][FunNext]_vars

\* ---- the properties ----

\* a step of the Scheduler: task t, in the polling loop, moves
SchedulerStep(t) == InLoop(t) /\ tasks'[t] # tasks[t]

Loops == {t \in Tasks : InLoop(t)}
Runs == {t \in Tasks : InRun(t)}

\* C1: at most one polling loop exists at any time, however many times start
\* was called, and at most one job is in a run at any time.
C1_OneLoopOneRun == Cardinality(Loops) <= 1 /\ Cardinality(Runs) <= 1

\* a job is in its run while a task that a further start created is pending
C1_Witness == \E t, u \in Tasks : InRun(t) /\ tasks[u].pc = "created"

\* C2: a fetch returns a job whose status is queued and whose created_at is
\* the smallest among the queued jobs; it happens only when no job is in a
\* run, and a run keeps its job until it ends.
C2_FetchOldestQueued ==
    [][\A t \in Tasks :
          /\ (tasks[t].pc = "fetch" /\ tasks'[t].pc = "exists") =>
                LET b == tasks'[t].book
                IN /\ books[b].status = "queued"
                   /\ \A o \in BookIds :
                         books[o].status = "queued" =>
                             books[b].created_at <= books[o].created_at
                   /\ \A u \in Tasks : ~InRun(u)
          /\ (InRun(t) /\ tasks'[t].pc \notin NoRunPcs) =>
                tasks'[t].book = tasks[t].book]_vars

\* the older of two queued jobs has been fetched, the newer one waits
C2_Witness ==
    \E t \in Tasks, o \in BookIds :
        /\ tasks[t].pc = "exists"
        /\ books[tasks[t].book].status = "queued"
        /\ books[o].status = "queued"
        /\ books[o].created_at > books[tasks[t].book].created_at

\* the status of book b changes in this step
StatusChanges(b) == books'[b].status # books[b].status

C4_ErrorKeepsLoop ==
    [][\A t \in Tasks :
          (tasks[t].pc = "except" /\ tasks'[t] # tasks[t]) =>
              /\ tasks'[t].pc = "fetch"
              /\ BookExists(books, tasks[t].book) =>
                    books'[tasks[t].book].status = "error"]_vars

\* C5: once the record of the job in the pipeline is deleted, the next
\* progress callback aborts the run, and that step writes nothing: no progress
\* label, no course, chapter or lesson.
C5_AbortAtNextCallback ==
    [][\A t \in Tasks :
          (/\ tasks[t].pc \in CallbackPcs
           /\ ~BookExists(books, tasks[t].book)
           /\ tasks'[t] # tasks[t]) =>
              /\ tasks'[t].pc = "except"
              /\ courses' = courses
              /\ books' = books]_vars

\* a run was aborted with "Book was deleted" during the generation of the
\* lessons, and nothing is stored for its book
C5_Witness ==
    \E t \in Tasks :
        /\ tasks[t].pc = "except"
        /\ tasks[t].exc = "Book was deleted"
        /\ tasks[t].lesson >= 1
        /\ CoursesOf(courses, tasks[t].book) = {}

PersistPcs == {"create_course", "create_chapter", "create_lesson"}

C7_AbandonedRunContinues ==
    [][\A t \in Tasks :
          (/\ tasks[t].pc = "except"
           /\ tasks[t].exc = "Book was deleted"
           /\ tasks'[t] # tasks[t]) =>
              /\ ~BookExists(books', tasks[t].book)
              /\ tasks'[t].pc = "fetch"]_vars

\* C8: under fair scheduling of the worker, every job that is queued is
\* eventually ready or error, unless it is deleted.
C8_QueuedJobsFinish ==
    \A b \in BookIds :
        (books[b].status = "queued") ~> (books[b].status \in {"ready", "error", "absent"})

\* C9: a job is marked ready only by a run that has created the course, every
\* chapter and every lesson of the structure.
C9_ReadyAfterPersistence ==
    [][\A b \in BookIds :
          (books'[b].status = "ready" /\ books[b].status # "ready") =>
              \E t \in Tasks :
                  /\ tasks[t].pc = "mark_ready"
                  /\ tasks[t].book = b
                  /\ tasks[t].course # 0
                  /\ tasks[t].chapter = tasks[t].nChapters
                  /\ tasks[t].made = NumLessons(tasks[t])]_vars

\* a job is ready and its course has two chapters and their lessons
C9_Witness ==
    \E b \in BookIds, c \in CourseIds :
        /\ books[b].status = "ready"
        /\ courses[c].book_id = b
        /\ courses[c].chapters >= 2
        /\ courses[c].lessons >= 2

\* C10: no request changes the status or the selection of a job that is
\* processing; a request only deletes it.
C10_RequestsLeaveProcessingJobs ==
    [][\A b \in BookIds :
          (books[b].status = "processing" /\ ~\E t \in Tasks : SchedulerStep(t)) =>
              \/ ~BookExists(books', b)
              \/ /\ books'[b].status = "processing"
                 /\ books'[b].selected_chapters = books[b].selected_chapters]_vars

\* C11: one call of call_openrouter makes at most 3 attempts; it waits 2 s
\* after the first failed attempt and 4 s after the second, whatever the
\* failures were; it raises only after the third failed attempt, without
\* another wait; once it has returned or raised it makes no further attempt.
C11_ThreeAttemptsBackoff ==
    /\ [](/\ call.posts <= 3
          /\ \A i \in 1..Len(call.slept) : call.slept[i] = 2 ^ i
          /\ call.pc = "post" => Len(call.slept) = call.posts
          /\ call.pc = "sleep" => call.posts < 3 /\ Len(call.slept) = call.posts - 1
          /\ call.pc = "returned" => Len(call.slept) = call.posts - 1
          /\ call.pc = "raised" => call.posts = 3 /\ call.slept = <<2, 4>>)
    /\ [][call.pc \in {"returned", "raised"} => call'.pc \in {call.pc, "idle"}]_vars

\* a call that timed out three times has raised after waits of 2 s and 4 s
C11_Witness ==
    /\ call.pc = "raised"
    /\ call.error = "TimeoutException"
    /\ call.slept = <<2, 4>>

\* C12: in every stage, when call_openrouter has raised after its last
\* attempt, the stage raises too: it neither asks again nor returns a fallback.
C12_TransportFailurePropagates ==
    [][(stage.pc = "await" /\ call.pc = "raised" /\ stage' # stage) =>
           stage'.pc = "raised"]_vars

\* C13: the lesson content stage makes at most 2 completion requests, and
\* whatever the model replied it returns content or asks again: no reply makes
\* it raise.
C13_LessonContentNeverFails ==
    /\ [](stage.fn = "generate_lesson_content" => stage.requests <= 2)
    /\ [][(/\ stage.fn = "generate_lesson_content"
           /\ stage.pc = "await"
           /\ call.pc = "returned"
           /\ stage' # stage) =>
              stage'.pc \in {"request", "returned"}]_vars

ScoreSum(q) == q.scores[1] + q.scores[2] + q.scores[3]
ValidScores(q) == \A i \in 1..3 : q.scores[i] \in 1..10

\* C15: a verdict that detect_quality returns with three scores in 1..10 has
\* mode PRESERVE if and only if the average of the scores is at least 7.
C15_ModeMatchesAverage ==
    (/\ stage.fn = "detect_quality"
     /\ stage.pc \in {"returned", "used"}
     /\ ValidScores(stage.out)) =>
        (stage.out.mode = "PRESERVE" <=> ScoreSum(stage.out) >= 3 * 7)

\* C16: in a free-tier run the lesson stage is called with mode PRESERVE,
\* whatever mode was detected, and the content the pipeline stores has none of
\* the keys common_mistakes, actionable_steps, before_you_move_on.
C16_FreeTierPreserveNoExtras ==
    (stage.fn = "generate_lesson_content" /\ stage.tier = "free") =>
        /\ stage.mode = "PRESERVE"
        /\ stage.pc = "used" =>
              stage.final.keys \cap {"common_mistakes", "actionable_steps",
                                     "before_you_move_on"} = {}

\* free tier, ENHANCE detected: the model's content had premium keys, the
\* stored content has none
C16_Witness ==
    /\ stage.fn = "generate_lesson_content"
    /\ stage.tier = "free"
    /\ stage.detected = "ENHANCE"
    /\ stage.pc = "used"
    /\ stage.out.source = "reply"
    /\ "common_mistakes" \in stage.out.keys
    /\ "before_you_move_on" \in stage.out.keys
    /\ stage.final.keys \cap Extras = {}

\* C17: in a free-tier run the quiz stored for a lesson has exactly 4 items.
C17_FreeTierFourItems ==
    (stage.fn = "generate_quiz" /\ stage.tier = "free" /\ stage.pc = "used") =>
        stage.final.items = 4
\* C18: whichever of the five shapes carries an object (the reply is the
\* object, the object is in a fenced block tagged json, in a plain fenced
\* block, in surrounding prose, or the reply is a JSON-encoded string of the
\* object), extract_json_from_response returns that object.
C18_FiveShapesYieldObject ==
    (/\ fun.fn = "extract_json_from_response"
     /\ fun.pc = "done"
     /\ fun.shape \in Shapes) => fun.result = loads(fun.obj, FALSE)

\* no piece of the reply is JSON
NoJson(ts) ==
    \A a, b \in 1..Len(ts) : ~Found(loads(SubSeq(ts, a, b), FALSE))

\* C19: for a reply of which no piece is JSON, extract_json_from_response
\* raises the parse failure, which is none of the failures of a completion
\* request; it returns no value.
C19_NoJsonRaisesParseFailure ==
    (/\ fun.fn = "extract_json_from_response"
     /\ fun.pc = "done"
     /\ NoJson(fun.text)) =>
        /\ fun.result = JSONDecodeError
        /\ fun.result.kind \notin CallErrors

\* the call has ended for a reply with braces and a fence but no JSON
C19_Witness ==
    /\ fun.fn = "extract_json_from_response"
    /\ fun.pc = "done"
    /\ NoJson(fun.text)
    /\ Positions(fun.text, "{") # {}
    /\ Positions(fun.text, "F") # {}
    /\ fun.result = JSONDecodeError

\* C20: in every outline that extract_toc returns, each entry starts no
\* later than it ends and ends no later than the last page of the document.
C20_EntriesWithinDocument ==
    (fun.fn = "extract_toc" /\ fun.pc = "done") =>
        \A i \in 1..Len(fun.chapters) :
            /\ fun.chapters[i].start_page <= fun.chapters[i].end_page
            /\ fun.chapters[i].end_page <= fun.total_pages

\* C21: in every outline that extract_toc returns, the entries are in the
\* order of their start pages and each entry ends before the next one
\* starts, also when two candidates have the same start page.
C21_EntriesOrderedDisjoint ==
    (fun.fn = "extract_toc" /\ fun.pc = "done") =>
        \A i \in 1..(Len(fun.chapters) - 1) :
            /\ fun.chapters[i].start_page <= fun.chapters[i + 1].start_page
            /\ fun.chapters[i].end_page < fun.chapters[i + 1].start_page

\* an embedded outline that lists only a preface and an index
PrefaceAndIndex ==
    <<[level |-> 1, title |-> "Preface", page |-> 1],
      [level |-> 1, title |-> "Index", page |-> FarPage]>>

\* C22: extract_toc returns the method metadata exactly when the embedded
\* outline yields at least one chapter and the chapters pass the sanity
\* check; otherwise it runs the extraction with the model and returns the
\* method ai with the entries of that outline whenever it has a chapter, and
\* otherwise the method none without entries.  The outline of a preface and
\* an index in a document of LargeDoc pages is not returned: the extraction
\* with the model is run.
C22_MethodOfOutline ==
    [][/\ (fun.fn = "extract_toc" /\ fun.pc = "called") =>
            LET o == extract_toc_from_metadata(fun.toc)
                ok == o.found /\ sanity_check_toc(MetadataTitles(fun.toc), o,
                                                  fun.total_pages)
            IN /\ ok <=> (fun'.pc = "done" /\ fun'.method = "metadata")
               /\ ok => fun'.chapters =
                           calculate_chapter_pages(o.pages, o.back, fun.total_pages)
               /\ ~ok => fun'.pc = "ai"
               /\ (fun.toc = PrefaceAndIndex /\ fun.total_pages = LargeDoc) =>
                     fun'.pc = "ai"
       /\ (fun.fn = "extract_toc" /\ fun.pc = "ai") =>
            /\ fun'.pc = "done"
            /\ \/ /\ fun'.outline.found
                  /\ fun'.method = "ai"
                  /\ fun'.chapters # <<>>
                  /\ fun'.chapters =
                        calculate_chapter_pages(fun'.outline.pages, fun'.outline.back,
                                                fun.total_pages)
               \/ /\ ~fun'.outline.found
                  /\ fun'.method = "none"
                  /\ fun'.chapters = <<>>]_vars

\* the outline of a large document yielded no chapter and the outline of
\* the model has been returned
C22_Witness ==
    /\ fun.fn = "extract_toc"
    /\ fun.pc = "done"
    /\ fun.total_pages = LargeDoc
    /\ fun.fallback = "no metadata TOC"
    /\ fun.method = "ai"
    /\ fun.chapters # <<>>

\* a chunk is one run of characters without whitespace
IsSingleRun(chunk_) == \A i \in 1..Len(chunk_) : ~IsSpace(chunk_[i])

\* C23: whatever the text, chunk_size and overlap, no chunk that chunk_text
\* returns is longer than chunk_size, unless it is a single run of
\* characters without whitespace.
C23_ChunksWithinSize ==
    (fun.fn = "chunk_text" /\ fun.pc = "done") =>
        \A i \in 1..Len(fun.chunks) :
            Len(fun.chunks[i]) <= fun.chunk_size \/ IsSingleRun(fun.chunks[i])

\* the characters of a text that are not whitespace
Inked(s) == SelectSeq(s, LAMBDA c : ~IsSpace(c))

\* a chunk without the overlap it was started with
WithoutSeed(chunk_, seed) ==
    IF seed = <<>> THEN chunk_
    ELSE SubSeq(chunk_, Len(lstrip(seed)) + Len(ParagraphBreak) + 1, Len(chunk_))

Selected(chapter) == chapter.start_page..chapter.end_page

\* a chapter of a selection lies in the document and does not end before it
\* starts
ValidChapter(chapter, doc_pages) ==
    /\ 1 <= chapter.start_page
    /\ chapter.start_page <= chapter.end_page
    /\ chapter.end_page <= doc_pages

\* C25: when a chapter of the selection lies outside the document or ends
\* before it starts, or the selection cannot be extracted, the extraction
\* raises, so that the job ends in error, and no page outside the selection
\* is handed on to be processed.
C25_InvalidSelectionFails ==
    (/\ fun.fn = "extract_chapter_pages"
     /\ fun.pc = "done"
     /\ \/ fun.fails
        \/ \E k \in 1..Len(fun.chapters_selected) :
              ~ValidChapter(fun.chapters_selected[k], fun.doc_pages)) =>
        /\ fun.raised
        /\ \A i \in 1..Len(fun.pages) :
              \E k \in 1..Len(fun.chapters_selected) :
                  fun.pages[i] \in Selected(fun.chapters_selected[k])

\* C26: a run whose extracted text has fewer than MinTextLen characters has
\* made no completion request and has created no course; the step that
\* handles its exception writes no course and leaves the job, if it still
\* exists, in status error.
C26_ShortTextEndsInError ==
    /\ [](\A t \in Tasks :
            (tasks[t].pc = "except" /\ tasks[t].exc = "Not enough text") =>
                /\ tasks[t].nChunks = 0
                /\ tasks[t].nChapters = 0
                /\ tasks[t].lesson = 0
                /\ tasks[t].course = 0)
    /\ [][\A t \in Tasks :
            (/\ tasks[t].pc = "except"
             /\ tasks[t].exc = "Not enough text"
             /\ tasks'[t] # tasks[t]) =>
                /\ courses' = courses
                /\ BookExists(books, tasks[t].book) =>
                      books'[tasks[t].book].status = "error"]_vars

\* C27: the queue position of a job in the store is one more than the
\* number of queued jobs created strictly earlier, and the job that a fetch
\* returns is one whose position is 1.
C27_FetchedJobIsFirst ==
    /\ [](\A b \in BookIds :
            BookExists(books, b) =>
                get_queue_position(books, b) =
                    1 + Cardinality({o \in BookIds :
                                        /\ books[o].status = "queued"
                                        /\ books[o].created_at < books[b].created_at}))
    /\ [][\A t \in Tasks :
            (tasks[t].pc = "fetch" /\ tasks'[t].pc = "exists") =>
                get_queue_position(books, tasks'[t].book) = 1]_vars

\* a job has been fetched and is still queued, at position 1, while another
\* queued job is at position 2
C27_Witness ==
    \E t \in Tasks, o \in BookIds :
        /\ tasks[t].pc = "exists"
        /\ books[tasks[t].book].status = "queued"
        /\ get_queue_position(books, tasks[t].book) = 1
        /\ books[o].status = "queued"
        /\ get_queue_position(books, o) = 2


\* a reply with multiple-choice questions none of which passes the validation
AllRejected(r) == r.json = "object" /\ ~r.malformed /\ r.valid = 0 /\ r.generic > 0

\* C28: when every multiple-choice question of the first reply is rejected,
\* generate_quiz makes exactly one more completion request; when every question
\* of the second reply is rejected too, it returns the fallback quiz of exactly
\* one question; it never makes a third request.
C28_RetryOnceThenFallback ==
    /\ [](stage.fn = "generate_quiz" => stage.requests <= 2)
    /\ [][(/\ stage.fn = "generate_quiz"
           /\ stage.pc = "await"
           /\ call.pc = "returned"
           /\ AllRejected(call.reply)
           /\ stage' # stage) =>
              IF stage.attempt = 0
              THEN stage'.pc = "request" /\ stage'.requests = 1
              ELSE /\ stage'.pc = "returned"
                   /\ stage'.out.source = "fallback"
                   /\ stage'.out.items = 1]_vars


\* C29: every stage takes a reply as parsed exactly when the five steps of
\* extract_json_from_response find JSON in it, and takes its parse-failure
\* path exactly when they find none.
C29_StagesParseByContract ==
    (fun.fn \in InlineParsers /\ fun.pc = "done") =>
        (Found(fun.result) <=> Found(extract_json_from_response(fun.text)))


\* C30: for every reply to detect_quality that is not a JSON object (text
\* that cannot be parsed, or JSON of another kind), detect_quality returns the
\* neutral verdict, three scores of 5 and mode ENHANCE, and the quality stage
\* raises only when the completion request itself has failed.
C30_NeutralVerdictForBadReply ==
    /\ []((stage.fn = "detect_quality" /\ stage.pc = "raised") =>
             stage.exc \in CallErrors)
    /\ [][(/\ stage.fn = "detect_quality"
           /\ stage.pc = "await"
           /\ call.pc = "returned"
           /\ call.reply.json # "object"
           /\ stage' # stage) =>
              (/\ stage'.pc = "returned"
               /\ stage'.out = Fallback("detect_quality", stage.mode))]_vars


\* C31: the fallback structure has one chapter for each of the first 5 chunk
\* summaries, in their order; the chapter for chunk i has at most 3 lessons,
\* each titled by one of the first 3 topics of chunk i (the stand-in topic for
\* a summary without topics) and with source_chunk_indices = [i].
C31_FallbackStructureShape ==
    (fun.fn = "fallback_structure" /\ fun.pc = "done") =>
        /\ ~fun.raised
        /\ Len(fun.chapters) = Min(FirstChunks, Len(fun.chunk_summaries))
        /\ \A i \in 1..Len(fun.chapters) :
              LET lessons == fun.chapters[i].lessons
                  topics == TopicsOf(fun.chunk_summaries[i])
              IN /\ fun.chapters[i].title = i
                 /\ Len(lessons) <= FirstTopics
                 /\ \A k \in 1..Len(lessons) :
                       /\ k <= Len(topics)
                       /\ lessons[k].title = topics[k]
                       /\ lessons[k].source_chunk_indices = <<i - 1>>


\* C32: when the explanation holds an object, the repair copies a key of the
\* object other than explanation to the content only if the content has no
\* value or an empty value for it, and keeps a value that is not empty; the
\* explanation becomes that of the object whenever the object has one.
C32_FillsOnlyEmptyKeys ==
    (fun.fn \in Repairers /\ fun.pc = "done" /\ HoldsObject(fun.content)) =>
        /\ \A key \in ContentKeys \ {"explanation"} :
              fun.result[key] =
                 IF Has(fun.nested, key) /\ fun.content[key] \in {"absent", ""}
                 THEN fun.nested[key]
                 ELSE fun.content[key]
        /\ Has(fun.nested, "explanation") =>
              fun.result["explanation"] = fun.nested["explanation"]


\* the end page of entry i of the outline returned, as the rule gives it
\* before any adjustment
RuleEnd(i) ==
    IF i < Len(fun.chapters) THEN fun.chapters[i + 1].start_page - 1
    ELSE IF fun.outline.back # 0 /\ fun.outline.back > fun.chapters[i].start_page
    THEN fun.outline.back - 1
    ELSE fun.total_pages

\* the outline of the six chapters was taken from the metadata and its last
\* chapter ends at page 114
SixChaptersEndBeforeIndex ==
    (fun.fn = "extract_toc" /\ fun.pc = "done" /\ fun.toc = SixChapters) =>
        /\ fun.method = "metadata"
        /\ Len(fun.chapters) = 6
        /\ fun.chapters[6].end_page = 114

\* C33: in every outline returned, every entry but the last ends at the next
\* entry's start page minus 1, and the last at backmatter_start - 1 if a
\* backmatter start was found beyond its start page, else at total_pages; the
\* outline of six chapters with an index at page 115 of 120 pages is taken
\* from the metadata and its last chapter ends at page 114.
C33_EndsBeforeNext ==
    (fun.fn = "extract_toc" /\ fun.pc = "done") =>
        /\ \A i \in 1..Len(fun.chapters) : fun.chapters[i].end_page = RuleEnd(i)
        /\ SixChaptersEndBeforeIndex

C35_OptionalFieldFailureTolerated ==
    (fun.fn \in PersistFns /\ fun.pc = "done" /\ fun.fault = "optional") =>
        /\ ~fun.did.raised
        /\ fun.fn = "update_book_progress" =>
              fun.did.writes = 1 /\ fun.did.written = "none"
        /\ (fun.fn # "update_book_progress" /\ fun.has_optional) =>
              fun.did.writes = 2 /\ fun.did.written = "core"

\* the course was inserted without the quality fields after the insert with
\* them had failed
C35_Witness ==
    /\ fun.fn = "create_course"
    /\ fun.pc = "done"
    /\ fun.fault = "optional"
    /\ fun.has_optional
    /\ fun.did = [writes |-> 2, written |-> "core", raised |-> FALSE]


\* C36: at most one task runs the pipeline at any time, at most one request
\* to the completion service is under way, and no such request is under way
\* while a task runs the pipeline.
C36_OneRequestAtATime ==
    /\ Cardinality({t \in Tasks : tasks[t].pc \in PipelinePcs}) <= 1
    /\ toc_calls <= 1
    /\ toc_calls > 0 => \A t \in Tasks : tasks[t].pc \notin PipelinePcs


\* the tasks that start() created and that have not run yet
Created(ts) == {t \in Tasks : ts[t].pc = "created"}

\* a step of an enqueue endpoint that makes the job b queued
Enqueues(b) == books[b].status # "queued" /\ books'[b].status = "queued"

\* C37: is_processing is true exactly while a polling loop is active.  When
\* a loop exits (an exception escaping it), is_processing is false after
\* the step; the start-if-idle trigger of an enqueue step then creates a task,
\* and none while a loop is active; the created task becomes the loop when it
\* runs with no loop active, and a fetch of that loop that does not raise takes
\* a queued job when there is one.
C37_RunningWhileLoopActive ==
    /\ [](is_processing <=> \E t \in Tasks : InLoop(t))
    /\ [][/\ \A t \in Tasks :
                /\ (InLoop(t) /\ tasks'[t].pc \in {"none", "created"}) =>
                      ~is_running'
                /\ (tasks[t].pc = "created" /\ tasks'[t] # tasks[t] /\ ~is_processing) =>
                      /\ tasks'[t] = LoopTask
                      /\ is_running'
                /\ (/\ tasks[t].pc = "fetch"
                    /\ tasks'[t] # tasks[t]
                    /\ tasks'[t].pc # "none"
                    /\ Queued(books) # {}) =>
                      /\ tasks'[t].pc = "exists"
                      /\ tasks'[t].book \in Queued(books)
          /\ (\E b \in BookIds : Enqueues(b)) =>
                IF is_processing
                THEN tasks' = tasks
                ELSE Cardinality(Created(tasks')) = Cardinality(Created(tasks)) + 1]_vars

\* a loop died in the run of a job, which is left in status processing; a job
\* was queued after that and the trigger created the task of a new loop
C37_Witness ==
    /\ ~is_processing
    /\ \A t \in Tasks : ~InLoop(t)
    /\ Created(tasks) # {}
    /\ Queued(books) # {}
    /\ \E b \in BookIds : books[b].status = "processing"


\* C38: when creating a chapter or a lesson raises after the course record
\* was created, the step that handles the exception leaves the course record
\* and the chapters and lessons created so far as they are, and the job, if
\* its record still exists, ends in status error.
C38_NoRollbackOnFailure ==
    [][\A t \in Tasks :
          (/\ tasks[t].pc = "except"
           /\ tasks[t].course # 0
           /\ tasks'[t] # tasks[t]) =>
              /\ courses' = courses
              /\ BookExists(books, tasks[t].book) =>
                    books'[tasks[t].book].status = "error"]_vars


\* C39: every job has at most one course record, whatever uploads, process
\* requests, runs, failures and deletions came before.
C39_AtMostOneCourse ==
    \A b \in BookIds : Cardinality(CoursesOf(courses, b)) <= 1


\* the stripped paragraphs of a text
ParagraphsOf(text) ==
    LET raw == split(text, ParagraphBreak)
    IN {strip(raw[i]) : i \in 1..Len(raw)}

\* what may be left of a paragraph in the hard-split loop: the paragraph
\* without some of its first characters
Remainders(paragraph) ==
    {SubSeq(paragraph, k, Len(paragraph)) : k \in 1..Len(paragraph)}

\* C40: chunk_text terminates for every text, every chunk_size >= 1 and every
\* overlap >= 0.  Whatever is left of a paragraph when the hard-split loop
\* tests it, an iteration splits at least one character off and leaves a
\* shorter rest, and the loop has split a paragraph into at most as many
\* pieces as it has characters.
C40_HardSplitTerminates ==
    fun.fn = "chunk_text" =>
        \A paragraph \in ParagraphsOf(fun.text) :
            /\ \A rest \in Remainders(paragraph) :
                  Len(rest) > fun.chunk_size =>
                      LET split_point == SplitPoint(rest, fun.chunk_size)
                      IN /\ split_point >= 1
                         /\ Len(AfterSplit(rest, split_point)) < Len(rest)
            /\ fun.pc = "done" =>
                  Len(HardSplit(paragraph, fun.chunk_size).pieces) <= Len(paragraph)

\* a text of one paragraph went through the hard-split loop more than twice
C40_Witness ==
    /\ fun.fn = "chunk_text"
    /\ fun.pc = "done"
    /\ ParagraphsOf(fun.text) = {fun.text}
    /\ Len(fun.text) > 2 * fun.chunk_size
    /\ Len(HardSplit(fun.text, fun.chunk_size).pieces) >= 3
    /\ Len(fun.chunks) >= 3

====
